---- MODULE Spec2Model ----
(***************************************************************************)
(* Hivemind market store (CMarketTreeDB), the market record codec and the  *)
(* create_* wallet calls that feed the store.                              *)
(*                                                                         *)
(* A byte string is a sequence of natural-number cells.  A 32-byte id is   *)
(* one cell, a height is one cell, a vector is a length cell followed by   *)
(* its elements.  The digest of a record is an injective function of its   *)
(* canonical cells (a collision-free hash).                                *)
(***************************************************************************)
EXTENDS Naturals, Integers, Sequences, FiniteSets, TLC

VARIABLES
    store,      \* the leveldb contents: key cells -> value cells
    nOps,       \* number of store write calls made so far
    wvect,      \* WriteMarketIndex: the list being written (<<>> when idle)
    wit,        \* WriteMarketIndex: position of the loop iterator
    wbatch,     \* WriteMarketIndex: the CDBBatch built so far
    wres,       \* result of the last WriteMarketIndex call
    scan,       \* the last Get* call and what it returned
    mempool,    \* transactions committed by the wallet, not yet in a block
    nTx,        \* number of wallet transactions created so far
    rpc,        \* the create_* call in flight (between validation and LOCK2)
    ret,        \* what the last finished create_* call returned
    cobj,       \* codec: the record handed to the codec
    cbytes,     \* codec: its serialization
    cdec        \* codec: the record read back

vars == <<store, nOps, wvect, wit, wbatch, wres, scan, mempool, nTx, rpc, ret,
          cobj, cbytes, cdec>>

----------------------------------------------------------------------------
(* Tag bytes (ASCII).                                                      *)
OP_B == 66
OP_D == 68
OP_L == 76
OP_M == 77
OP_O == 79
OP_R == 82
OP_S == 83
OP_T == 84
IDX_d == 100
IDX_l == 108
IDX_m == 109
IDX_o == 111
IDX_r == 114
IDX_s == 115
IDX_t == 116
DB_f == 102
DB_F == 70
CH_0 == 48
CH_1 == 49

INT_MAX == 2147483647

DFID_X1 == 1
DFID_X2 == 2
DFID_X3 == 3
DFID_LNX1 == 4

COIN == 100000000

(* The number of values of a uint16_t.                                     *)
UINT16 == 65536

(* uint256(): the all-zero id.  An id is the sequence of cells it is the   *)
(* digest of; the all-zero id is the digest of nothing.                    *)
NullId == <<0>>
(* An id that is the digest of no record.                                  *)
NoSuchId == <<1>>

RECURSIVE Pow(_, _)
Pow(b, n) == IF n = 0 THEN 1 ELSE b * Pow(b, n - 1)

----------------------------------------------------------------------------
(* Serialization layouts: the READWRITE lists, in declaration order.       *)
(* Each entry is <<field, kind>>: "s" is a scalar, "i" a uint256, "v" a    *)
(* vector of scalars, "w" a vector of uint256.                             *)

LayoutBranch ==
    << <<"name", "s">>, <<"description", "s">>, <<"baseListingFee", "s">>,
       <<"freeDecisions", "s">>, <<"targetDecisions", "s">>,
       <<"maxDecisions", "s">>, <<"minTradingFee", "s">>, <<"tau", "s">>,
       <<"ballotTime", "s">>, <<"unsealTime", "s">>,
       <<"consensusThreshold", "s">>, <<"alpha", "s">>, <<"tol", "s">> >>

LayoutDecision ==
    << <<"keyID", "s">>, <<"branchid", "i">>, <<"prompt", "s">>,
       <<"eventOverBy", "s">>, <<"isScaled", "s">>, <<"min", "s">>,
       <<"max", "s">>, <<"answerOptionality", "s">> >>

LayoutTrade ==
    << <<"keyID", "s">>, <<"marketid", "i">>, <<"isBuy", "s">>,
       <<"nShares", "s">>, <<"price", "s">>, <<"decisionState", "s">>,
       <<"nonce", "s">> >>

LayoutMarket ==
    << <<"keyID", "s">>, <<"B", "s">>, <<"tradingFee", "s">>,
       <<"maxCommission", "s">>, <<"title", "s">>, <<"description", "s">>,
       <<"tags", "s">>, <<"maturation", "s">>, <<"branchid", "i">>,
       <<"decisionIDs", "w">>, <<"decisionFunctionIDs", "v">>,
       <<"txPoWh", "s">>, <<"txPoWd", "s">> >>

LayoutRevealVote ==
    << <<"branchid", "i">>, <<"height", "s">>, <<"decisionIDs", "w">>,
       <<"decisionVotes", "v">>, <<"NA", "s">>, <<"keyID", "s">> >>

LayoutSealedVote ==
    << <<"branchid", "i">>, <<"height", "s">>, <<"voteid", "i">> >>

LayoutStealVote ==
    << <<"branchid", "i">>, <<"height", "s">>, <<"voteid", "i">> >>

LayoutOutcome ==
    << <<"nHeight", "s">>, <<"branchid", "i">>, <<"nVoters", "s">>,
       <<"voterIDs", "w">>, <<"oldRep", "v">>, <<"thisRep", "v">>,
       <<"smoothedRep", "v">>, <<"NARow", "v">>, <<"particRow", "v">>,
       <<"particRel", "v">>, <<"rowBonus", "v">>, <<"nDecisions", "s">>,
       <<"decisionIDs", "w">>, <<"isScaled", "v">>, <<"firstLoading", "v">>,
       <<"decisionsRaw", "v">>, <<"consensusReward", "v">>,
       <<"certainty", "v">>, <<"NACol", "v">>, <<"particCol", "v">>,
       <<"authorBonus", "v">>, <<"decisionsFinal", "v">>,
       <<"voteMatrix", "v">>, <<"NA", "s">>, <<"alpha", "s">>,
       <<"tol", "s">> >>

Layout(op) ==
    CASE op = OP_B -> LayoutBranch
      [] op = OP_D -> LayoutDecision
      [] op = OP_T -> LayoutTrade
      [] op = OP_M -> LayoutMarket
      [] op = OP_R -> LayoutRevealVote
      [] op = OP_S -> LayoutSealedVote
      [] op = OP_L -> LayoutStealVote
      [] op = OP_O -> LayoutOutcome

MarketOps == {OP_B, OP_D, OP_L, OP_M, OP_O, OP_R, OP_S, OP_T}

(* Members that no SerializationOp mentions.                               *)
Unserialized(op) ==
    CASE op = OP_R -> {"voteid"}
      [] op = OP_O -> {"tx"}
      [] OTHER -> {}

(* The fields the data model lists for a variant: everything but the       *)
(* envelope.                                                               *)
CarrierFields(op) ==
    {Layout(op)[i][1] : i \in 1..Len(Layout(op))} \cup Unserialized(op)

(* What a constructor leaves in the member f of a record with layout lay:  *)
(* marketObj() sets nHeight, the derived constructor sets marketop, a      *)
(* uint256 is null, a vector is empty.                                     *)
Constructs(op, lay, f) ==
    IF f = "marketop" THEN op
    ELSE IF f = "nHeight" THEN INT_MAX
    ELSE IF f = "voteid" THEN NullId
    ELSE IF \E i \in 1..Len(lay) : lay[i][1] = f /\ lay[i][2] = "i"
    THEN NullId
    ELSE IF \E i \in 1..Len(lay) : lay[i][1] = f /\ lay[i][2] \in {"v", "w"}
    THEN << >>
    ELSE 0

Constructed ==
    [op \in MarketOps |->
        [f \in CarrierFields(op) \cup {"marketop", "nHeight", "txid"} |->
            Constructs(op, Layout(op), f)]]

(* A default-constructed record of the type whose tag is op.               *)
marketObj(op) == Constructed[op]

----------------------------------------------------------------------------
(* The codec.                                                              *)

RECURSIVE SerializeFrom(_, _, _)
SerializeFrom(obj, lay, i) ==
    IF i > Len(lay) THEN <<>>
    ELSE (IF lay[i][2] \in {"s", "i"} THEN <<obj[lay[i][1]]>>
          ELSE <<Len(obj[lay[i][1]])>> \o obj[lay[i][1]])
         \o SerializeFrom(obj, lay, i + 1)

(* SerializationOp writing: marketop, then each READWRITE field.           *)
Serialize(obj) ==
    <<obj.marketop>> \o SerializeFrom(obj, Layout(obj.marketop), 1)

RECURSIVE UnserializeFrom(_, _, _, _, _)
UnserializeFrom(lay, bytes, i, pos, obj) ==
    IF i > Len(lay) THEN [ok |-> TRUE, obj |-> obj, pos |-> pos]
    ELSE IF pos > Len(bytes) THEN [ok |-> FALSE, obj |-> obj, pos |-> pos]
    ELSE IF lay[i][2] \in {"s", "i"}
         THEN UnserializeFrom(lay, bytes, i + 1, pos + 1,
                              [obj EXCEPT ![lay[i][1]] = bytes[pos]])
    ELSE IF pos + bytes[pos] > Len(bytes)
         THEN [ok |-> FALSE, obj |-> obj, pos |-> pos]
    ELSE UnserializeFrom(lay, bytes, i + 1, pos + 1 + bytes[pos],
             [obj EXCEPT ![lay[i][1]] =
                 SubSeq(bytes, pos + 1, pos + bytes[pos])])

(* SerializationOp reading into a default-constructed record of the type   *)
(* whose tag is op: the members the READWRITE list names are overwritten,  *)
(* the others keep what the constructor gave them.                         *)
Unserialize(op, bytes) ==
    UnserializeFrom(Layout(op), bytes, 1, 2,
                    [marketObj(op) EXCEPT
                        !.marketop = IF Len(bytes) = 0 THEN op ELSE bytes[1]])

(* The 32-byte digest of canonical bytes: collision-free, so a digest is   *)
(* known by the bytes it is the digest of.                                 *)
Hash256(bytes) == bytes

(* marketObj::GetHash: the digest of the record's serialization.           *)
GetHash(obj) == Hash256(Serialize(obj))

----------------------------------------------------------------------------
(* Records as the callers fill them in.                                    *)

NoObj == [marketop |-> 0]

NewBranch(name) == [marketObj(OP_B) EXCEPT !.name = name]

NewDecision(branchid, prompt) ==
    [marketObj(OP_D) EXCEPT !.branchid = branchid, !.prompt = prompt]

NewMarket(branchid, decisionIDs, decisionFunctionIDs) ==
    [marketObj(OP_M) EXCEPT !.branchid = branchid,
                            !.decisionIDs = decisionIDs,
                            !.decisionFunctionIDs = decisionFunctionIDs]

NewTrade(marketid, isBuy, nShares, price, decisionState, nonce) ==
    [marketObj(OP_T) EXCEPT !.marketid = marketid, !.isBuy = isBuy,
                            !.nShares = nShares, !.price = price,
                            !.decisionState = decisionState, !.nonce = nonce]

NewSealedVote(branchid, height, voteid) ==
    [marketObj(OP_S) EXCEPT !.branchid = branchid, !.height = height,
                            !.voteid = voteid]

NewStealVote(branchid, height, voteid) ==
    [marketObj(OP_L) EXCEPT !.branchid = branchid, !.height = height,
                            !.voteid = voteid]

NewRevealVote(branchid, height, voteid, decisionIDs, decisionVotes) ==
    [marketObj(OP_R) EXCEPT !.branchid = branchid, !.height = height,
                            !.voteid = voteid, !.decisionIDs = decisionIDs,
                            !.decisionVotes = decisionVotes]

NewOutcome(branchid, nHeight, tx) ==
    [marketObj(OP_O) EXCEPT !.branchid = branchid, !.nHeight = nHeight,
                            !.tx = tx]

(* The records the model draws from.                                       *)
Branch1 == NewBranch(0)
Branch2 == NewBranch(1)
Decision11 == NewDecision(GetHash(Branch1), 0)
Decision12 == NewDecision(GetHash(Branch1), 1)
Decision21 == NewDecision(GetHash(Branch2), 0)
Sealed1 == NewSealedVote(GetHash(Branch1), 1, NoSuchId)

CodecObjects ==
    {NewBranch(n) : n \in 0..1}
    \cup {NewDecision(b, p) : b \in {NullId, GetHash(Branch1), GetHash(Branch2)},
                              p \in 0..1}
    \cup {NewMarket(b, ds, SubSeq(<<DFID_X1, DFID_LNX1>>, 1, Len(ds))) :
              b \in {NullId, GetHash(Branch1)},
              ds \in {<<GetHash(Decision11)>>,
                      <<GetHash(Decision11), GetHash(Decision21)>>}}
    \cup {NewTrade(NoSuchId, buy, 1, 1, st, 0) : buy \in 0..1, st \in 0..2}
    \cup {NewSealedVote(GetHash(Branch1), h, v) :
              h \in 0..1, v \in {NullId, NoSuchId}}
    \cup {NewStealVote(GetHash(Branch1), h, v) :
              h \in 0..1, v \in {NullId, GetHash(Sealed1)}}
    \cup {NewRevealVote(GetHash(Branch1), h, v, ds, SubSeq(<<1, 0>>, 1, Len(ds))) :
              h \in 0..1, v \in {NullId, GetHash(Sealed1)},
              ds \in {<<>>, <<GetHash(Decision11), GetHash(Decision12)>>}}
    \cup {NewOutcome(GetHash(Branch1), h, tx) : h \in 0..2, tx \in 0..1}

----------------------------------------------------------------------------
(* The ordered key-value store.  A key is the sequence of its serialized   *)
(* components: the tag, then ids and heights.                              *)

(* The order of two ids as byte strings: -1, 0 or 1.  The cells of the     *)
(* bytes an id is the digest of are compared in turn, an id among them by  *)
(* the same rule; left counts the elements still to compare in a vector.   *)
NumCmp(x, y) == IF x < y THEN -1 ELSE IF x = y THEN 0 ELSE 1

RECURSIVE IdCmp(_, _)
RECURSIVE CellsCmp(_, _, _, _, _, _)
IdCmp(a, b) ==
    IF a = b THEN 0
    ELSE IF a[1] # b[1] THEN NumCmp(a[1], b[1])
    ELSE CellsCmp(a, b, Layout(a[1]), 1, 2, 0)
CellsCmp(a, b, lay, i, pos, left) ==
    IF i > Len(lay) THEN 0
    ELSE IF left > 0
    THEN IF a[pos] = b[pos]
         THEN CellsCmp(a, b, lay, IF left = 1 THEN i + 1 ELSE i, pos + 1,
                       left - 1)
         ELSE IF lay[i][2] = "w" THEN IdCmp(a[pos], b[pos])
         ELSE NumCmp(a[pos], b[pos])
    ELSE IF lay[i][2] = "i"
    THEN IF a[pos] = b[pos] THEN CellsCmp(a, b, lay, i + 1, pos + 1, 0)
         ELSE IdCmp(a[pos], b[pos])
    ELSE IF a[pos] # b[pos] THEN NumCmp(a[pos], b[pos])
    ELSE IF lay[i][2] = "s" \/ a[pos] = 0
    THEN CellsCmp(a, b, lay, i + 1, pos + 1, 0)
    ELSE CellsCmp(a, b, lay, i, pos + 1, a[pos])

(* leveldb's bytewise comparator on two keys of the store.  Keys with the  *)
(* same tag have the same components, but for the one-byte keys.           *)
KeyLess(a, b) ==
    IF a[1] # b[1] THEN a[1] < b[1]
    ELSE IF Len(a) = 1 \/ Len(b) = 1 THEN Len(a) < Len(b)
    ELSE IF a[1] \in {DB_f, DB_F} THEN a[2] < b[2]
    ELSE IF a[2] # b[2] THEN IdCmp(a[2], b[2]) < 0
    ELSE IF Len(a) = 2 THEN FALSE
    ELSE IF Len(a) = 3 THEN IdCmp(a[3], b[3]) < 0
    ELSE IF a[3] # b[3] THEN a[3] < b[3]
    ELSE IdCmp(a[4], b[4]) < 0

(* The comparator on a key and a Seek target (op, id, uint256()): the      *)
(* target ends in zero bytes, so a key that starts with (op, id) is not    *)
(* before it.                                                              *)
BeforeTarget(k, op, id) ==
    IF k[1] # op THEN k[1] < op
    ELSE IF Len(k) = 1 THEN TRUE
    ELSE IdCmp(k[2], id) < 0

RECURSIVE SortKeys(_)
SortKeys(S) ==
    IF S = {} THEN << >>
    ELSE LET m == CHOOSE k \in S : \A o \in S \ {k} : KeyLess(k, o)
         IN <<m>> \o SortKeys(S \ {m})

(* Serialized size of a key: a tag is 1 byte, an id 32, a height or a file *)
(* number 4, a flag name a length byte and its characters.                 *)
KeyBytes(key) ==
    IF Len(key) = 1 THEN 1
    ELSE IF key[1] = DB_f THEN 5
    ELSE IF key[1] = DB_F THEN 3
    ELSE IF Len(key) = 2 THEN 33
    ELSE IF Len(key) = 3 THEN 65
    ELSE 69

(* CDBBatch::Write / CDBWrapper::Write on the contents.                    *)
Put(st, key, value) ==
    [k \in DOMAIN st \cup {key} |-> IF k = key THEN value ELSE st[k]]

(* CDBWrapper::Erase on the contents.                                      *)
Erase(st, key) == [k \in DOMAIN st \ {key} |-> st[k]]

(* CDBWrapper::WriteBatch: the writes of the batch, in order, all at once. *)
RECURSIVE WriteBatch(_, _)
WriteBatch(st, batch) ==
    IF batch = << >> THEN st
    ELSE WriteBatch(Put(st, batch[1][1], batch[1][2]), Tail(batch))

(* pair<record, uint256>: the record's bytes followed by the carrier txid. *)
ValueOf(obj) == Serialize(obj) \o <<obj.txid>>

RECURSIVE MarketIndexKeys(_, _, _)
MarketIndexKeys(obj, objid, i) ==
    IF i > Len(obj.decisionIDs) THEN << >>
    ELSE << <<IDX_m, obj.decisionIDs[i], objid>> >>
         \o MarketIndexKeys(obj, objid, i + 1)

(* IndexKeys with the Market loop stopping after the first decision.       *)
IndexKeys_FirstDecisionOnly(objid, obj) ==
    CASE obj.marketop = OP_B -> << >>
      [] obj.marketop = OP_D -> << <<IDX_d, obj.branchid, objid>> >>
      [] obj.marketop = OP_L ->
             << <<IDX_l, obj.branchid, obj.height, objid>> >>
      [] obj.marketop = OP_M ->
             SubSeq(MarketIndexKeys(obj, objid, 1), 1, 1)
      [] obj.marketop = OP_O -> << <<IDX_o, obj.branchid, objid>> >>
      [] obj.marketop = OP_R ->
             << <<IDX_r, obj.branchid, obj.height, objid>> >>
      [] obj.marketop = OP_S ->
             << <<IDX_s, obj.branchid, obj.height, objid>> >>
      [] obj.marketop = OP_T -> << <<IDX_t, obj.marketid, objid>> >>
      [] OTHER -> << >>

(* The secondary keys one loop iteration of WriteMarketIndex writes.       *)
IndexKeys(objid, obj) ==
    CASE obj.marketop = OP_B -> << >>
      [] obj.marketop = OP_D -> << <<IDX_d, obj.branchid, objid>> >>
      [] obj.marketop = OP_L ->
             << <<IDX_l, obj.branchid, obj.height, objid>> >>
      [] obj.marketop = OP_M -> MarketIndexKeys(obj, objid, 1)
      [] obj.marketop = OP_O -> << <<IDX_o, obj.branchid, objid>> >>
      [] obj.marketop = OP_R ->
             << <<IDX_r, obj.branchid, obj.height, objid>> >>
      [] obj.marketop = OP_S ->
             << <<IDX_s, obj.branchid, obj.height, objid>> >>
      [] obj.marketop = OP_T -> << <<IDX_t, obj.marketid, objid>> >>
      [] OTHER -> << >>

(* One loop iteration of WriteMarketIndex: the batch.Write calls for one   *)
(* (objid, obj) pair, primary key first.                                   *)
IndexWrites(objid, obj) ==
    LET keys == <<  <<obj.marketop, objid>> >> \o IndexKeys(objid, obj)
        value == ValueOf(obj)
    IN IF obj.marketop \in MarketOps
       THEN [i \in 1..Len(keys) |-> <<keys[i], value>>]
       ELSE << >>

(* The whole loop: the batch after the pairs vect[from..].                 *)
RECURSIVE BuildBatch(_, _)
BuildBatch(vect, from) ==
    IF from > Len(vect) THEN << >>
    ELSE IndexWrites(vect[from][1], vect[from][2])
         \o BuildBatch(vect, from + 1)

(* CDBWrapper::ReadSidechain / CDBIterator::GetSidechainValue: the stored  *)
(* bytes decoded as a record of the asked type, with its carrier txid.     *)
GetSidechainValue(value, op) ==
    LET u == Unserialize(op, value)
    IN IF u.ok /\ u.pos <= Len(value)
       THEN [ok |-> TRUE, obj |-> [u.obj EXCEPT !.txid = value[u.pos]]]
       ELSE [ok |-> u.ok, obj |-> u.obj]

ReadSidechain(st, key, op) ==
    IF key \in DOMAIN st THEN GetSidechainValue(st[key], op)
    ELSE [ok |-> FALSE, obj |-> marketObj(op)]

(* GetBranch .. GetTrade.                                                  *)
GetPrimary(st, op, objid) == ReadSidechain(st, <<op, objid>>, op)

(* CDBIterator::Seek then Next until !Valid: the keys from the first one   *)
(* not less than the target to the end of the database.                    *)
SeekAll(st, op, id) ==
    SortKeys({k \in DOMAIN st : ~BeforeTarget(k, op, id)})

(* CDBIterator::GetKey into pair<char, uint256>.                           *)
GetKey2(key) == KeyBytes(key) >= 33

(* CDBIterator::GetKey into pair<pair<char, uint256>, uint32_t>.           *)
GetKey3(key) == KeyBytes(key) >= 37

(* ScanById without the comparison of key.second with the id asked for.    *)
RECURSIVE ScanById_AnyId(_, _, _, _, _)
ScanById_AnyId(st, keys, idx, id, op) ==
    IF keys = << >> THEN << >>
    ELSE (IF GetKey2(keys[1]) /\ keys[1][1] = idx
          THEN LET v == GetSidechainValue(st[keys[1]], op)
               IN IF v.ok THEN <<v.obj>> ELSE << >>
          ELSE << >>)
         \o ScanById_AnyId(st, Tail(keys), idx, id, op)

(* ScanById with push_front in the place of push_back.                     *)
RECURSIVE ScanById_PushFront(_, _, _, _, _)
ScanById_PushFront(st, keys, idx, id, op) ==
    IF keys = << >> THEN << >>
    ELSE ScanById_PushFront(st, Tail(keys), idx, id, op)
         \o (IF GetKey2(keys[1]) /\ keys[1][1] = idx /\ keys[1][2] = id
             THEN LET v == GetSidechainValue(st[keys[1]], op)
                  IN IF v.ok THEN <<v.obj>> ELSE << >>
             ELSE << >>)

(* The loop of GetDecisions, GetMarkets, GetOutcomes and GetTrades over    *)
(* the keys the iterator visits.                                           *)
RECURSIVE ScanById(_, _, _, _, _)
ScanById(st, keys, idx, id, op) ==
    IF keys = << >> THEN << >>
    ELSE (IF GetKey2(keys[1]) /\ keys[1][1] = idx /\ keys[1][2] = id
          THEN LET v == GetSidechainValue(st[keys[1]], op)
               IN IF v.ok THEN <<v.obj>> ELSE << >>
          ELSE << >>)
         \o ScanById(st, Tail(keys), idx, id, op)

(* The loop of GetBranches.                                                *)
RECURSIVE ScanByTag(_, _, _)
ScanByTag(st, keys, op) ==
    IF keys = << >> THEN << >>
    ELSE (IF GetKey2(keys[1]) /\ keys[1][1] = op
          THEN LET v == GetSidechainValue(st[keys[1]], op)
               IN IF v.ok THEN <<v.obj>> ELSE << >>
          ELSE << >>)
         \o ScanByTag(st, Tail(keys), op)

(* The loop of GetRevealVotes, GetSealedVotes and GetStealVotes: the keys  *)
(* that pass the test.  The loop pushes a vote it never read.              *)
VoteKeys(st, idx, id, height) ==
    SelectSeq(SeekAll(st, idx, id),
              LAMBDA k : GetKey3(k) /\ k[1] = idx /\ k[2] = id
                         /\ k[3] = height)

GetBranches(st) == ScanByTag(st, SeekAll(st, OP_B, NullId), OP_B)
GetDecisions(st, id) ==
    ScanById(st, SeekAll(st, IDX_d, id), IDX_d, id, OP_D)
GetMarkets(st, id) ==
    ScanById(st, SeekAll(st, IDX_m, id), IDX_m, id, OP_M)
GetOutcomes(st, id) ==
    ScanById(st, SeekAll(st, IDX_o, id), IDX_o, id, OP_O)
GetTrades(st, id) ==
    ScanById(st, SeekAll(st, IDX_t, id), IDX_t, id, OP_T)

----------------------------------------------------------------------------
(* Bounds of the model.                                                    *)
MaxOps == 2         \* store write calls in one behaviour
MaxBatch == 2       \* pairs in one WriteMarketIndex list
MaxHeight == 2      \* vote heights run over 0..MaxHeight

Heights == 0..MaxHeight

WithTx(obj, txid) == [obj EXCEPT !.txid = txid]

Market1 == NewMarket(NullId, <<GetHash(Decision11), GetHash(Decision21)>>,
                     <<DFID_X1, DFID_X2>>)
Trade1 == NewTrade(GetHash(Market1), 1, 1, 1, 1, 0)
Trade2 == NewTrade(GetHash(Market1), 0, 1, 1, 0, 0)
Sealed2 == NewSealedVote(GetHash(Branch1), 2, NoSuchId)
Reveal1 == NewRevealVote(GetHash(Branch1), 1, GetHash(Sealed1),
                         <<GetHash(Decision11)>>, <<1>>)
Steal1 == NewStealVote(GetHash(Branch1), 1, GetHash(Sealed1))
Outcome1 == NewOutcome(GetHash(Branch1), 1, 1)

StoreObjects ==
    {Branch1, Decision11, Decision12, Decision21, Market1, Trade1, Trade2,
     Sealed1, Reveal1, Steal1, Outcome1}

(* The (objid, obj) pairs a block hands to WriteMarketIndex: every record  *)
(* carried by transaction 1, one also by transaction 2.                    *)
StorePairs ==
    {<<GetHash(o), WithTx(o, 1)>> : o \in StoreObjects}
    \cup {<<GetHash(Decision11), WithTx(Decision11, 2)>>}

BatchPairs ==
    {<<GetHash(o), WithTx(o, 1)>> : o \in {Decision11, Market1, Trade1, Sealed1}}
    \cup {<<GetHash(Decision11), WithTx(Decision11, 2)>>}

Vects(pairs) == UNION {[1..n -> pairs] : n \in 1..MaxBatch}

(* The ids the model asks the store about.                                 *)
ScanIds ==
    {GetHash(Branch1), GetHash(Branch2), GetHash(Decision11), GetHash(Market1)}

PrimaryIds == {NoSuchId, GetHash(Branch1), GetHash(Decision11)}

NoScan == [op |-> "none"]

----------------------------------------------------------------------------
(* The store's operations.                                                 *)

(* WriteMarketIndex, start to return, on a list drawn from pairs.  A       *)
(* failing WriteBatch throws and the node halts: nothing is written.       *)
WriteMarketIndexOf(pairs) ==
    /\ nOps < MaxOps
    /\ wit = 0
    /\ scan = NoScan
    /\ \E vect \in Vects(pairs) :
        store' = WriteBatch(store, BuildBatch(vect, 1))
    /\ wres' = "ok"
    /\ nOps' = nOps + 1
    /\ UNCHANGED <<scan, wvect, wit, wbatch, mempool, nTx, rpc, ret,
                   cobj, cbytes, cdec>>

WriteMarketIndex == WriteMarketIndexOf(StorePairs)

WriteReindexing ==
    /\ nOps < MaxOps
    /\ wit = 0
    /\ scan = NoScan
    /\ \E fReindexing \in BOOLEAN :
        store' = IF fReindexing THEN Put(store, <<OP_R>>, <<CH_1>>)
                 ELSE Erase(store, <<OP_R>>)
    /\ nOps' = nOps + 1
    /\ UNCHANGED <<scan, wvect, wit, wbatch, wres, mempool, nTx, rpc, ret,
                   cobj, cbytes, cdec>>

WriteFlag ==
    /\ nOps < MaxOps
    /\ wit = 0
    /\ scan = NoScan
    /\ \E name \in {0}, fValue \in BOOLEAN :
        store' = Put(store, <<DB_F, name>>,
                     <<IF fValue THEN CH_1 ELSE CH_0>>)
    /\ nOps' = nOps + 1
    /\ UNCHANGED <<scan, wvect, wit, wbatch, wres, mempool, nTx, rpc, ret,
                   cobj, cbytes, cdec>>

WriteBatchSync ==
    /\ nOps < MaxOps
    /\ wit = 0
    /\ scan = NoScan
    /\ \E fileInfo \in {<< >>, << <<0, 1>> >>}, nLastFile \in {0} :
        store' = WriteBatch(store,
                    [i \in 1..Len(fileInfo) |->
                        << <<DB_f, fileInfo[i][1]>>, <<fileInfo[i][2]>> >>]
                    \o << << <<IDX_l>>, <<nLastFile>> >> >>)
    /\ nOps' = nOps + 1
    /\ UNCHANGED <<scan, wvect, wit, wbatch, wres, mempool, nTx, rpc, ret,
                   cobj, cbytes, cdec>>

(* A Get* call returns: the caller holds the result.                       *)
Returned(op, id, height, ok, result) ==
    /\ scan = NoScan
    /\ scan' = [op |-> op, id |-> id, height |-> height, ok |-> ok,
                result |-> result]
    /\ UNCHANGED <<store, nOps, wvect, wit, wbatch, wres, mempool, nTx, rpc,
                   ret, cobj, cbytes, cdec>>

(* The caller is done with the result of a Get* call.                      *)
Discard ==
    /\ scan # NoScan
    /\ scan' = NoScan
    /\ UNCHANGED <<store, nOps, wvect, wit, wbatch, wres, mempool, nTx, rpc,
                   ret, cobj, cbytes, cdec>>

(* The name of the getter of each family.                                  *)
GetterName(op) ==
    CASE op = OP_B -> "GetBranch"
      [] op = OP_D -> "GetDecision"
      [] op = OP_M -> "GetMarket"
      [] op = OP_O -> "GetOutcome"
      [] op = OP_R -> "GetRevealVote"
      [] op = OP_S -> "GetSealedVote"
      [] op = OP_L -> "GetStealVote"
      [] op = OP_T -> "GetTrade"

GetPrimaryCall ==
    \E op \in MarketOps, objid \in PrimaryIds :
        LET r == GetPrimary(store, op, objid)
        IN Returned(GetterName(op), objid, 0, r.ok, <<r.obj>>)

GetBranchesCall == Returned("GetBranches", NullId, 0, TRUE, GetBranches(store))

GetDecisionsCall ==
    \E id \in ScanIds :
        Returned("GetDecisions", id, 0, TRUE, GetDecisions(store, id))

GetMarketsCall ==
    \E id \in ScanIds :
        Returned("GetMarkets", id, 0, TRUE, GetMarkets(store, id))

GetOutcomesCall ==
    \E id \in ScanIds :
        Returned("GetOutcomes", id, 0, TRUE, GetOutcomes(store, id))

GetTradesCall ==
    \E id \in ScanIds :
        Returned("GetTrades", id, 0, TRUE, GetTrades(store, id))

Init ==
    /\ store = << >>
    /\ nOps = 0
    /\ wvect = << >> /\ wit = 0 /\ wbatch = << >> /\ wres = "none"
    /\ scan = NoScan
    /\ mempool = << >>
    /\ nTx = 0
    /\ rpc = [pc |-> "idle"]
    /\ ret = [call |-> "none"]
    /\ cobj = NoObj /\ cbytes = << >> /\ cdec = NoObj

Next ==
    \/ WriteMarketIndex
    \/ WriteReindexing
    \/ WriteFlag
    \/ WriteBatchSync
    \/ GetPrimaryCall
    \/ GetBranchesCall
    \/ GetDecisionsCall
    \/ GetMarketsCall
    \/ GetOutcomesCall
    \/ GetTradesCall
    \/ Discard

Spec == Init /\ [][Next]_vars

----------------------------------------------------------------------------
(* The vote indexes: the three vote families written and scanned.          *)

VotePairs ==
    {<<GetHash(o), WithTx(o, 1)>> : o \in {Sealed1, Sealed2, Reveal1, Steal1}}
    \cup {<<GetHash(NewSealedVote(GetHash(b), 1, NullId)),
            WithTx(NewSealedVote(GetHash(b), 1, NullId), 1)>> : b \in {Branch1, Branch2}}

VoteBranchIds == {NoSuchId, GetHash(Branch1), GetHash(Branch2)}

WriteVoteIndex == WriteMarketIndexOf(VotePairs)

(* A vote pushed by the loop is default-constructed: its ids are null and  *)
(* its height was never set.                                               *)
UnreadVotes(op, n) ==
    {[i \in 1..n |-> [marketObj(op) EXCEPT !.height = g[i]]] :
        g \in [1..n -> {0, INT_MAX}]}

GetRevealVotesCall ==
    \E id \in VoteBranchIds, height \in Heights :
        \E res \in UnreadVotes(OP_R, Len(VoteKeys(store, IDX_r, id, height))) :
            Returned("GetRevealVotes", id, height, TRUE, res)

GetSealedVotesCall ==
    \E id \in VoteBranchIds, height \in Heights :
        \E res \in UnreadVotes(OP_S, Len(VoteKeys(store, IDX_s, id, height))) :
            Returned("GetSealedVotes", id, height, TRUE, res)

GetStealVotesCall ==
    \E id \in VoteBranchIds, height \in Heights :
        \E res \in UnreadVotes(OP_L, Len(VoteKeys(store, IDX_l, id, height))) :
            Returned("GetStealVotes", id, height, TRUE, res)

VotesNext ==
    \/ WriteVoteIndex
    \/ WriteBatchSync
    \/ GetRevealVotesCall
    \/ GetSealedVotesCall
    \/ GetStealVotesCall
    \/ Discard

SpecVotes == Init /\ [][VotesNext]_vars

----------------------------------------------------------------------------
(* WriteMarketIndex statement by statement, with readers in between.       *)

(* The call is entered with a list; the batch is empty.                    *)
BatchBeginOf(pairs) ==
    /\ nOps < MaxOps
    /\ wit = 0
    /\ wres # "halted"
    /\ scan = NoScan
    /\ \E vect \in Vects(pairs) : wvect' = vect
    /\ wit' = 1
    /\ wbatch' = << >>
    /\ wres' = "running"
    /\ UNCHANGED <<store, scan, nOps, mempool, nTx, rpc, ret, cobj, cbytes,
                   cdec>>

BatchBegin == BatchBeginOf(BatchPairs)

(* One iteration with the batch flushed at the end of the iteration.       *)
BatchStep_Flush ==
    /\ wit >= 1
    /\ wit <= Len(wvect)
    /\ store' = WriteBatch(store,
                    IndexWrites(wvect[wit][1], wvect[wit][2]))
    /\ wit' = wit + 1
    /\ UNCHANGED <<wbatch, scan, nOps, wvect, wres, mempool, nTx, rpc, ret,
                   cobj, cbytes, cdec>>

(* One iteration of the loop: the record's writes join the batch.          *)
BatchStep ==
    /\ wit >= 1
    /\ wit <= Len(wvect)
    /\ wbatch' = wbatch \o IndexWrites(wvect[wit][1], wvect[wit][2])
    /\ wit' = wit + 1
    /\ UNCHANGED <<store, scan, nOps, wvect, wres, mempool, nTx, rpc, ret,
                   cobj, cbytes, cdec>>

(* return WriteBatch(batch): the batch is applied as one write.            *)
BatchCommit ==
    /\ wit = Len(wvect) + 1
    /\ store' = WriteBatch(store, wbatch)
    /\ wres' = "ok"
    /\ wit' = 0
    /\ nOps' = nOps + 1
    /\ UNCHANGED <<scan, wvect, wbatch, mempool, nTx, rpc, ret, cobj, cbytes,
                   cdec>>

(* WriteBatch fails: it throws, nothing is written and the node halts.     *)
BatchFail ==
    /\ wit = Len(wvect) + 1
    /\ wres' = "halted"
    /\ wit' = 0
    /\ nOps' = nOps + 1
    /\ UNCHANGED <<store, scan, wvect, wbatch, mempool, nTx, rpc, ret, cobj,
                   cbytes, cdec>>

(* A reader between two statements of the writer.                          *)
BatchRead ==
    \E op \in {OP_D, OP_M}, objid \in {GetHash(Decision11), GetHash(Market1)} :
        LET r == GetPrimary(store, op, objid)
        IN Returned(GetterName(op), objid, 0, r.ok, <<r.obj>>)

BatchNext ==
    \/ BatchBegin
    \/ BatchStep
    \/ BatchCommit
    \/ BatchFail
    \/ BatchRead
    \/ Discard

SpecBatch == Init /\ [][BatchNext]_vars

----------------------------------------------------------------------------
(* The getters of the eight families on a store that holds a record of     *)
(* each family and the one-byte keys of the block index.                   *)

LookupObjects ==
    {Branch1, Decision11, Market1, Trade1, Sealed1, Reveal1, Steal1, Outcome1}
LookupPairs == {<<GetHash(o), WithTx(o, 1)>> : o \in LookupObjects}
LookupIds == {GetHash(o) : o \in LookupObjects} \cup {NoSuchId}
LookupCallIds == {GetHash(Steal1), GetHash(Reveal1), NoSuchId}

GetPrimaryCallOf(ids) ==
    \E op \in MarketOps, objid \in ids :
        LET r == GetPrimary(store, op, objid)
        IN Returned(GetterName(op), objid, 0, r.ok, <<r.obj>>)

LookupNext ==
    \/ BatchBeginOf(LookupPairs)
    \/ BatchStep
    \/ BatchCommit
    \/ WriteReindexing
    \/ WriteBatchSync
    \/ GetPrimaryCallOf(LookupCallIds)
    \/ Discard

SpecLookup == Init /\ [][LookupNext]_vars

----------------------------------------------------------------------------
(* The create* wallet calls.  Each call validates against the store        *)
(* without a lock, then takes cs_main and cs_wallet, creates the           *)
(* transaction that carries the record and commits it to the mempool.      *)

MaxTx == 2          \* wallet transactions created in one behaviour

(* Records of earlier blocks: the store a call may find.                   *)
SeedObjects == <<Branch1, Branch2, Decision11, Decision21, Market1>>
SeedLengths == {0, 4, Len(SeedObjects)}
SeedStore(n) ==
    WriteBatch(<< >>,
               BuildBatch([i \in 1..n |->
                              <<GetHash(SeedObjects[i]),
                                WithTx(SeedObjects[i], i)>>], 1))
FirstWalletTx == Len(SeedObjects) + 1

(* marketNStates of a market: two states per decision.                     *)
marketNStates(market) == Pow(2, Len(market.decisionIDs))

(* decisionFunctionToInt with X1 for a string that is none of the codes.   *)
decisionFunctionToInt_Lenient(s) ==
    CASE s = "X2" -> DFID_X2
      [] s = "X3" -> DFID_X3
      [] s = "LNX1" -> DFID_LNX1
      [] OTHER -> DFID_X1

decisionFunctionToInt(s) ==
    CASE s = "X1" -> DFID_X1
      [] s = "X2" -> DFID_X2
      [] s = "X3" -> DFID_X3
      [] s = "LNX1" -> DFID_LNX1
      [] OTHER -> -1

decisionFunctionIDToString(i) ==
    CASE i = DFID_X1 -> "X1"
      [] i = DFID_X2 -> "X2"
      [] i = DFID_X3 -> "X3"
      [] i = DFID_LNX1 -> "LNX1"
      [] OTHER -> ""

(* createbranch: the duplicate check.                                      *)
createbranch_check(st, branch) ==
    IF GetPrimary(st, OP_B, GetHash(branch)).ok
    THEN "branchid already exists!"
    ELSE "ok"

(* DecodeDestination, IsValidDestination and boost::get<CKeyID> on the     *)
(* address argument: dest is "keyid", "script" or "invalid".               *)
address_check(dest) ==
    IF dest = "invalid" THEN "Invalid address!"
    ELSE IF dest # "keyid" THEN "Invalid non P2PKH destination!"
    ELSE "ok"

(* The decision createdecision fills in from its arguments; a call with    *)
(* eight parameters gives min 0 and max 2 coins.                           *)
createdecision_obj(branchid, prompt, isScaled, nParams) ==
    [NewDecision(branchid, prompt) EXCEPT
        !.isScaled = isScaled,
        !.max = IF nParams = 6 THEN 1 * COIN ELSE 2 * COIN]

(* createdecision with the branch lookup left out.                         *)
createdecision_check_NoBranch(st, dest, decision, nParams) ==
    IF address_check(dest) # "ok" THEN address_check(dest)
    ELSE IF decision.isScaled = 1 /\ nParams # 8 THEN "Missing params!"
    ELSE IF GetPrimary(st, OP_D, GetHash(decision)).ok
    THEN "Decision already exists!"
    ELSE "ok"

(* createdecision up to LOCK2: the address, the parameter count, the       *)
(* branch lookup, then the duplicate check.                                *)
createdecision_check(st, dest, decision, nParams) ==
    IF address_check(dest) # "ok" THEN address_check(dest)
    ELSE IF decision.isScaled = 1 /\ nParams # 8 THEN "Missing params!"
    ELSE IF ~GetPrimary(st, OP_B, decision.branchid).ok
    THEN "Branch not found!"
    ELSE IF GetPrimary(st, OP_D, GetHash(decision)).ok
    THEN "Decision already exists!"
    ELSE "ok"

(* A uint32_t as <<high half, low half>>, each half below UINT16.          *)
One32 == <<0, 1>>

(* nStates *= 2 on a uint32_t: the bit shifted out of the high half is     *)
(* lost.                                                                   *)
Double32Of[n \in (0..(UINT16 - 1)) \X (0..(UINT16 - 1))] ==
    <<(2 * n[1] + (2 * n[2]) \div UINT16) % UINT16, (2 * n[2]) % UINT16>>
Double32(n) == Double32Of[n]

(* The uint32_t with the value n, for 0 <= n < 2^31.                       *)
U32(n) == <<n \div UINT16, n % UINT16>>

Max32 == <<UINT16 - 1, UINT16 - 1>>

(* a + b and a - b on uint32_t: modulo 2^32.                               *)
Add32(a, b) ==
    <<(a[1] + b[1] + (a[2] + b[2]) \div UINT16) % UINT16, (a[2] + b[2]) % UINT16>>
Sub32(a, b) ==
    <<(a[1] - b[1] - (IF a[2] < b[2] THEN 1 ELSE 0)) % UINT16, (a[2] - b[2]) % UINT16>>

(* a / d on uint32_t for a uint16_t d > 0: long division over the bytes    *)
(* of a, from the highest.                                                 *)
Div32(a, d) ==
    LET b3 == a[1] \div 256
        b2 == a[1] % 256
        b1 == a[2] \div 256
        b0 == a[2] % 256
        r3 == b3 % d
        r2 == (r3 * 256 + b2) % d
        r1 == (r2 * 256 + b1) % d
    IN <<(b3 \div d) * 256 + (r3 * 256 + b2) \div d,
         ((r2 * 256 + b1) \div d) * 256 + (r1 * 256 + b0) \div d>>

(* d * a on uint32_t for a uint16_t d: the product modulo 2^32, byte by    *)
(* byte from the lowest.                                                   *)
Mul32(d, a) ==
    LET p0 == d * (a[2] % 256)
        p1 == d * (a[2] \div 256) + p0 \div 256
        p2 == d * (a[1] % 256) + p1 \div 256
        p3 == d * (a[1] \div 256) + p2 \div 256
    IN <<(p3 % 256) * 256 + (p2 % 256), (p1 % 256) * 256 + (p0 % 256)>>

(* a < b and a % d on uint32_t.                                            *)
Less32(a, b) == a[1] < b[1] \/ (a[1] = b[1] /\ a[2] < b[2])
Mod32(a, d) == Sub32(a, Mul32(d, Div32(a, d)))

(* createmarket: the loop over the tokens of the decisions argument; a     *)
(* token is <<decision id, function code>>, or <<decision id>> when it has *)
(* no ":".                                                                 *)
RECURSIVE createmarket_loop(_, _, _, _, _)
createmarket_loop(st, strs, i, market, nStates) ==
    IF i > Len(strs)
    THEN [err |-> "ok", market |-> market, nStates |-> nStates]
    ELSE LET decisionFunctionID ==
                 IF Len(strs[i]) = 2 THEN decisionFunctionToInt(strs[i][2])
                 ELSE DFID_X1
             decisionID == strs[i][1]
         IN IF decisionFunctionID < 0
            THEN [err |-> "decision function does not exist!",
                  market |-> market, nStates |-> nStates]
            ELSE IF ~GetPrimary(st, OP_D, decisionID).ok
            THEN [err |-> "decisionID does not exist!",
                  market |-> market, nStates |-> nStates]
            ELSE createmarket_loop(st, strs, i + 1,
                     [market EXCEPT
                        !.decisionIDs = Append(@, decisionID),
                        !.decisionFunctionIDs = Append(@, decisionFunctionID)],
                     Double32(nStates))

(* createmarket up to LOCK2.                                               *)
createmarket_check(st, dest, strs) ==
    LET l == createmarket_loop(st, strs, 1, marketObj(OP_M), One32)
    IN IF address_check(dest) # "ok"
       THEN [err |-> address_check(dest), market |-> marketObj(OP_M),
             nStates |-> One32]
       ELSE IF l.err # "ok" THEN l
       ELSE IF Len(l.market.decisionIDs) = 0 \/ l.nStates = One32
       THEN [l EXCEPT !.err = "There are no decisionids!"]
       ELSE IF GetPrimary(st, OP_M, GetHash(l.market)).ok
       THEN [l EXCEPT !.err = "Market already exists!"]
       ELSE l

(* 1e-8*price > 1e-8*trade.price, with the computed price per share given  *)
(* as quote in units of 1e-8 coin: price = 1e-8*quote.  The declared       *)
(* trade.price is an integer, so quote > trade.price * COIN exactly when   *)
(* trade.price <= (quote - 1) \div COIN.                                   *)
PriceAbove(quote, tradeprice) == tradeprice <= (quote - 1) \div COIN

(* nShares[decisionState] on an array of nStates doubles.                  *)
OutOfBounds == "nShares[decisionState] is out of bounds"

(* createtrade_check with the test of decisionState left out.              *)
createtrade_check_NoStateTest(st, dest, marketid, buy_or_sell, nShares, price, decisionState, quote) ==
    LET trade == NewTrade(marketid, IF buy_or_sell = "buy" THEN 1 ELSE 0,
                          nShares, price, decisionState, 0)
        m == GetPrimary(st, OP_M, marketid)
    IN IF address_check(dest) # "ok" THEN address_check(dest)
       ELSE IF buy_or_sell # "buy" /\ buy_or_sell # "sell"
       THEN "must be buy or sell!"
       ELSE IF nShares <= 0 THEN "number of shares must be positive!"
       ELSE IF price <= 0 THEN "price must be positive!"
       ELSE IF ~m.ok THEN "marketid does not exist!"
       ELSE IF GetPrimary(st, OP_T, GetHash(trade)).ok
       THEN "tradeid already exists!"
       ELSE IF decisionState >= marketNStates(m.obj) THEN OutOfBounds
       ELSE IF buy_or_sell = "buy" /\ PriceAbove(quote, price)
       THEN "price needs to be at least"
       ELSE "ok"

(* createtrade up to LOCK2; quote is the price per share that              *)
(* marketAccountValue gives for the trade, in units of 1e-8 coin.          *)
createtrade_check(st, dest, marketid, buy_or_sell, nShares, price, decisionState, quote) ==
    LET trade == NewTrade(marketid, IF buy_or_sell = "buy" THEN 1 ELSE 0,
                          nShares, price, decisionState, 0)
        m == GetPrimary(st, OP_M, marketid)
    IN IF address_check(dest) # "ok" THEN address_check(dest)
       ELSE IF buy_or_sell # "buy" /\ buy_or_sell # "sell"
       THEN "must be buy or sell!"
       ELSE IF nShares <= 0 THEN "number of shares must be positive!"
       ELSE IF price <= 0 THEN "price must be positive!"
       ELSE IF ~m.ok THEN "marketid does not exist!"
       ELSE IF decisionState >= marketNStates(m.obj)
       THEN "decision state is above the number of states in the market!"
       ELSE IF GetPrimary(st, OP_T, GetHash(trade)).ok
       THEN "tradeid already exists!"
       ELSE IF decisionState >= marketNStates(m.obj) THEN OutOfBounds
       ELSE IF buy_or_sell = "buy" /\ PriceAbove(quote, price)
       THEN "price needs to be at least"
       ELSE "ok"

(* getcreatetradecapitalrequired.                                          *)
getcreatetradecapitalrequired_check(st, marketid, buy_or_sell, dnShares, decisionState) ==
    LET m == GetPrimary(st, OP_M, marketid)
    IN IF buy_or_sell # "buy" /\ buy_or_sell # "sell"
       THEN "must be buy or sell!"
       ELSE IF dnShares <= 0 THEN "number of shares must be positive!"
       ELSE IF ~m.ok THEN "Vote not found!"
       ELSE IF decisionState >= marketNStates(m.obj)
       THEN "decision state is above the number of states in the market!"
       ELSE IF decisionState >= marketNStates(m.obj) THEN OutOfBounds
       ELSE "ok"

(* The ids and tokens the calls are made with.                             *)
RpcBranchIds == {GetHash(Branch1), NoSuchId}
RpcTokens ==
    <<(<<GetHash(Decision11)>>), <<GetHash(Decision21), "X2">>,
      <<GetHash(Decision11), "X9">>, <<NoSuchId>>>>
RpcStrs ==
    {<< >>}
    \cup {<<RpcTokens[i]>> : i \in 1..Len(RpcTokens)}
    \cup {<<RpcTokens[p[1]], RpcTokens[p[2]]>> :
              p \in {q \in (1..Len(RpcTokens)) \X (1..Len(RpcTokens)) :
                         q[1] < q[2]}}
RpcMarketIds == {GetHash(Market1), NoSuchId}

RpcDests == {"keyid", "invalid"}

(* The argument lists the calls are made with.  createtrade is called with *)
(* a valid list or with a list that departs from it in one argument.       *)
RpcDecisionArgs == RpcDests \X RpcBranchIds \X {0} \X {0, 1} \X {6, 8}
RpcMarketArgs ==
    ({"keyid"} \X RpcStrs)
    \cup ({"invalid"} \X {<< >>, <<RpcTokens[1]>>})
RpcTradeValid == <<"keyid", GetHash(Market1), "buy", 1, 70000000, 0>>
RpcTradeArgs ==
    {a \in RpcDests \X RpcMarketIds \X {"buy", "sell", "hold"}
            \X {0, 1} \X {0, 70000000} \X {0, 4} :
        Cardinality({i \in 1..6 : a[i] # RpcTradeValid[i]}) <= 1}
RpcTradeArgsWide ==
    {a \in RpcDests \X RpcMarketIds \X {"buy", "sell", "hold"}
            \X {0, 1} \X {0, 1, 70000000} \X {0, 4} :
        Cardinality({i \in 1..6 : a[i] # RpcTradeValid[i]}) <= 1}
(* Prices per share of 0.6931 and 0.9741 coin.                             *)
RpcQuotes == {69314718, 97407698}
RpcCapitalValid == <<GetHash(Market1), "buy", 1, 0>>
RpcCapitalArgs ==
    {a \in RpcMarketIds \X {"buy", "sell", "hold"} \X {0, 1} \X {0, 4} :
        Cardinality({i \in 1..4 : a[i] # RpcCapitalValid[i]}) <= 1}

(* A create* call that builds its transaction before it checks its         *)
(* request.                                                                *)
Validated_CreatesFirst(call, args, obj, err) ==
    /\ rpc.pc = "idle"
    /\ nTx < MaxTx
    /\ IF err = "ok"
       THEN /\ rpc' = [pc |-> "lock", call |-> call, args |-> args,
                       obj |-> obj]
            /\ ret' = ret
            /\ nTx' = nTx
       ELSE /\ rpc' = IF err = "SIGFPE" THEN [pc |-> "crashed"] ELSE rpc
            /\ ret' = [call |-> call, args |-> args, err |-> err,
                       obj |-> obj, txid |-> 0]
            /\ nTx' = nTx + 1
    /\ UNCHANGED <<store, nOps, wvect, wit, wbatch, wres, scan, mempool,
                   cobj, cbytes, cdec>>

(* A call leaves its validation: with an error it returns, without one it  *)
(* goes on to LOCK2.  args are the arguments the call was made with.       *)
Validated(call, args, obj, err) ==
    /\ rpc.pc = "idle"
    /\ nTx < MaxTx
    /\ IF err = "ok"
       THEN /\ rpc' = [pc |-> "lock", call |-> call, args |-> args,
                       obj |-> obj]
            /\ ret' = ret
       ELSE /\ rpc' = IF err = "SIGFPE" THEN [pc |-> "crashed"] ELSE rpc
            /\ ret' = [call |-> call, args |-> args, err |-> err,
                       obj |-> obj, txid |-> 0]
    /\ UNCHANGED <<store, nOps, wvect, wit, wbatch, wres, scan, mempool, nTx,
                   cobj, cbytes, cdec>>

(* The branch createbranch fills in from its arguments: name, then        *)
(* targetDecisions, maxDecisions, tau, ballotTime and unsealTime, each     *)
(* cast to uint16_t.                                                       *)
createbranch_obj(a) ==
    [NewBranch(a[1]) EXCEPT !.targetDecisions = a[2] % UINT16,
                            !.maxDecisions = a[3] % UINT16,
                            !.tau = a[4] % UINT16,
                            !.ballotTime = a[5] % UINT16,
                            !.unsealTime = a[6] % UINT16]

createbranchOf(argset) ==
    \E a \in argset :
        LET branch == createbranch_obj(a)
        IN Validated("createbranch", a, branch,
                     createbranch_check(store, branch))

RpcBranchArgs == {<<name, 0, 0, 0, 0, 0>> : name \in {0, 1}}

createbranch == createbranchOf(RpcBranchArgs)

createdecision ==
    \E a \in RpcDecisionArgs :
        LET decision == createdecision_obj(a[2], a[3], a[4], a[5])
        IN Validated("createdecision", a, decision,
                     createdecision_check(store, a[1], decision, a[5]))

createmarketOf(argset) ==
    \E a \in argset :
        LET c == createmarket_check(store, a[1], a[2])
        IN Validated("createmarket", a, c.market, c.err)

createmarket == createmarketOf(RpcMarketArgs)

createtradeOf(argset, quotes) ==
    \E a \in argset, quote \in quotes :
        Validated("createtrade", a \o <<quote>>,
                  NewTrade(a[2], IF a[3] = "buy" THEN 1 ELSE 0,
                           a[4], a[5], a[6], 0),
                  createtrade_check(store, a[1], a[2], a[3], a[4], a[5], a[6],
                                    quote))

createtrade == createtradeOf(RpcTradeArgs, {69314718})

(* getcreatetradecapitalrequired reads the store and returns.              *)
getcreatetradecapitalrequired ==
    /\ rpc.pc = "idle"
    /\ \E a \in RpcCapitalArgs :
        LET err == getcreatetradecapitalrequired_check(store, a[1], a[2],
                                                       a[3], a[4])
        IN ret' = [call |-> "getcreatetradecapitalrequired", args |-> a,
                   err |-> IF err = "ok" THEN "none" ELSE err,
                   obj |-> NoObj, txid |-> 0]
    /\ UNCHANGED <<store, nOps, wvect, wit, wbatch, wres, scan, mempool, nTx,
                   rpc, cobj, cbytes, cdec>>

(* LOCK2(cs_main, cs_wallet) to the return of a create* call.              *)
SendTransaction ==
    /\ rpc.pc = "lock"
    /\ \E created \in BOOLEAN, committed \in BOOLEAN :
        LET txid == FirstWalletTx + nTx
        IN IF ~created
           THEN /\ ret' = [call |-> rpc.call, args |-> rpc.args,
                           err |-> "CreateTransaction",
                           obj |-> rpc.obj, txid |-> 0]
                /\ UNCHANGED <<mempool, nTx>>
           ELSE IF ~committed
           THEN /\ ret' = [call |-> rpc.call, args |-> rpc.args,
                           err |-> "The transaction was rejected!",
                           obj |-> rpc.obj, txid |-> 0]
                /\ nTx' = nTx + 1
                /\ UNCHANGED mempool
           ELSE /\ ret' = [call |-> rpc.call, args |-> rpc.args,
                           err |-> "none", obj |-> rpc.obj, txid |-> txid]
                /\ nTx' = nTx + 1
                /\ mempool' = Append(mempool,
                                  <<GetHash(rpc.obj), WithTx(rpc.obj, txid)>>)
    /\ rpc' = [pc |-> "idle"]
    /\ UNCHANGED <<store, nOps, wvect, wit, wbatch, wres, scan, cobj, cbytes,
                   cdec>>

(* Validation of a record before admission: its id is new to the store and *)
(* the ids it refers to exist.                                             *)
RefsExist(st, obj) ==
    CASE obj.marketop = OP_D -> GetPrimary(st, OP_B, obj.branchid).ok
      [] obj.marketop = OP_M ->
             \A i \in 1..Len(obj.decisionIDs) :
                 GetPrimary(st, OP_D, obj.decisionIDs[i]).ok
      [] obj.marketop = OP_T -> GetPrimary(st, OP_M, obj.marketid).ok
      [] OTHER -> TRUE

Admitted(st, txs) ==
    SelectSeq(txs, LAMBDA t : /\ ~GetPrimary(st, t[2].marketop, t[1]).ok
                              /\ RefsExist(st, t[2]))

(* The list a block of the first n mempool transactions hands to           *)
(* WriteMarketIndex: the records that pass validation.                     *)
BlockVect(st, txs, n) == Admitted(st, SubSeq(txs, 1, n))

(* A block takes the first n transactions of the mempool.                  *)
ConnectBlock ==
    /\ nOps < MaxOps
    /\ mempool # << >>
    /\ \E n \in 1..Len(mempool) :
        /\ store' = WriteBatch(store,
                        BuildBatch(BlockVect(store, mempool, n), 1))
        /\ mempool' = SubSeq(mempool, n + 1, Len(mempool))
    /\ nOps' = nOps + 1
    /\ UNCHANGED <<wvect, wit, wbatch, wres, scan, nTx, rpc, ret, cobj,
                   cbytes, cdec>>

RpcInit ==
    /\ \E n \in SeedLengths : store = SeedStore(n)
    /\ nOps = 0
    /\ wvect = << >> /\ wit = 0 /\ wbatch = << >> /\ wres = "none"
    /\ scan = NoScan
    /\ mempool = << >>
    /\ nTx = 0
    /\ rpc = [pc |-> "idle"]
    /\ ret = [call |-> "none"]
    /\ cobj = NoObj /\ cbytes = << >> /\ cdec = NoObj

RpcNext ==
    \/ createbranch
    \/ createdecision
    \/ createmarket
    \/ createtrade
    \/ SendTransaction
    \/ ConnectBlock

SpecRpc == RpcInit /\ [][RpcNext]_vars

----------------------------------------------------------------------------
(* createmarket with few and with many decisions, on a store that holds    *)
(* the decisions.                                                          *)

MaxDecisions == 33  \* the longest list of decisions of a createmarket call

RpcManyLengths ==
    {0, 1, 2, MaxDecisions - 2, MaxDecisions - 1, MaxDecisions}
RpcMarketArgsMany ==
    {<<"keyid", [i \in 1..k |-> RpcTokens[t]]>> :
        k \in RpcManyLengths, t \in {1, 2}}

createmarketMany == createmarketOf(RpcMarketArgsMany)

(* Lists of one and two tokens with every function code, with strings that *)
(* are no code and with no code.                                           *)
FunctionCodes == {"X1", "X2", "X3", "LNX1"}
RpcCodeTokens ==
    {<<GetHash(Decision11), code>> : code \in FunctionCodes \cup {"", "x1", "X9"}}
    \cup {<<GetHash(Decision11)>>}
RpcMarketArgsCodes ==
    {<<"keyid", <<t>>>> : t \in RpcCodeTokens}
    \cup {<<"keyid", <<RpcTokens[1], t>>>> : t \in RpcCodeTokens}

createmarketCodes == createmarketOf(RpcMarketArgsCodes)

MarketInit ==
    /\ store = SeedStore(4)
    /\ nOps = 0
    /\ wvect = << >> /\ wit = 0 /\ wbatch = << >> /\ wres = "none"
    /\ scan = NoScan
    /\ mempool = << >>
    /\ nTx = 0
    /\ rpc = [pc |-> "idle"]
    /\ ret = [call |-> "none"]
    /\ cobj = NoObj /\ cbytes = << >> /\ cdec = NoObj

MarketNext ==
    \/ createmarketMany
    \/ createmarketCodes
    \/ SendTransaction

SpecMarket == MarketInit /\ [][MarketNext]_vars

----------------------------------------------------------------------------
(* The trade calls on a store that holds the decisions and, in some        *)
(* behaviours, the market.                                                 *)

createtradeWide == createtradeOf(RpcTradeArgsWide, RpcQuotes)

TradeInit ==
    /\ \E n \in {4, Len(SeedObjects)} : store = SeedStore(n)
    /\ nOps = 0
    /\ wvect = << >> /\ wit = 0 /\ wbatch = << >> /\ wres = "none"
    /\ scan = NoScan
    /\ mempool = << >>
    /\ nTx = 0
    /\ rpc = [pc |-> "idle"]
    /\ ret = [call |-> "none"]
    /\ cobj = NoObj /\ cbytes = << >> /\ cdec = NoObj

TradeNext ==
    \/ createtradeWide
    \/ getcreatetradecapitalrequired
    \/ SendTransaction
    \/ ConnectBlock

SpecTrade == TradeInit /\ [][TradeNext]_vars

----------------------------------------------------------------------------
(* createbranch with its numeric arguments, and the three vote calls, on a *)
(* store that earlier blocks have filled.                                  *)

(* A sane argument list of createbranch and its branch, with tau 2;        *)
(* Branch1 is a branch with tau 0.                                         *)
RpcBranchValid == <<1, 1, 1, 2, 0, 1>>
BranchTau2 == createbranch_obj(RpcBranchValid)
SealedTau2 == NewSealedVote(GetHash(BranchTau2), 2, NoSuchId)

VoteSeedObjects == <<BranchTau2, Branch1, SealedTau2>>
VoteSeedLengths == {0, 2, Len(VoteSeedObjects)}
VoteSeedStore(n) ==
    WriteBatch(<< >>,
               BuildBatch([i \in 1..n |->
                              <<GetHash(VoteSeedObjects[i]),
                                WithTx(VoteSeedObjects[i], i)>>], 1))

(* What vote.height % branch.tau != 0 can do when tau is 0: the division   *)
(* is undefined, it traps or gives some value.                             *)
ModZero == {"trap", "zero", "nonzero"}

(* The branch lookup and the height test of the three vote calls.          *)
createvote_check(st, branchid, height, ub) ==
    LET branch == GetPrimary(st, OP_B, branchid)
    IN IF ~branch.ok THEN "Branch not found!"
       ELSE IF branch.obj.tau = 0
       THEN (IF ub = "trap" THEN "SIGFPE"
             ELSE IF ub = "nonzero" THEN "Invalid height for the branch's tau!"
             ELSE "ok")
       ELSE IF height % branch.obj.tau # 0
       THEN "Invalid height for the branch's tau!"
       ELSE "ok"

(* createrevealvote up to LOCK2; a ballot token is <<wellformed,           *)
(* decisionid, vote>>.                                                     *)
createrevealvote_check(st, branchid, height, token, ub) ==
    IF createvote_check(st, branchid, height, ub) # "ok"
    THEN createvote_check(st, branchid, height, ub)
    ELSE IF ~token[1] THEN "decisionid,vote is not in correct form!"
    ELSE "ok"

createrevealvote_obj(branchid, height, voteid, token) ==
    IF token[1]
    THEN NewRevealVote(branchid, height, voteid, <<token[2]>>,
                       <<token[3] * COIN>>)
    ELSE NewRevealVote(branchid, height, voteid, << >>, << >>)

(* The argument lists of this section.  createbranch is called with a sane *)
(* list or with a list that departs from it in one argument.               *)
RpcBranchArgsWide ==
    {a \in {1} \X {0, 1, 2, UINT16 + 1} \X {0, 1} \X {0, 2, UINT16}
            \X {0, 2} \X {1, UINT16 - 1} :
        Cardinality({i \in 1..6 : a[i] # RpcBranchValid[i]}) <= 1}
RpcVoteBranchIds == {GetHash(BranchTau2), GetHash(Branch1), NoSuchId}
RpcVoteHeights == {2, 3}
RpcVoteIds == {GetHash(SealedTau2), NoSuchId}
RpcBallotTokens == {<<TRUE, GetHash(Decision11), 1>>, <<FALSE, NullId, 0>>}
RpcSealedArgs == RpcVoteBranchIds \X RpcVoteHeights \X {NoSuchId}
RpcStealValid == <<GetHash(BranchTau2), 2, GetHash(SealedTau2)>>
RpcStealArgs ==
    {a \in RpcVoteBranchIds \X RpcVoteHeights \X RpcVoteIds :
        Cardinality({i \in 1..3 : a[i] # RpcStealValid[i]}) <= 1}
RpcRevealValid ==
    <<GetHash(BranchTau2), 2, GetHash(SealedTau2),
      <<TRUE, GetHash(Decision11), 1>> >>
RpcRevealArgs ==
    {a \in RpcVoteBranchIds \X RpcVoteHeights \X RpcVoteIds
            \X RpcBallotTokens :
        Cardinality({i \in 1..4 : a[i] # RpcRevealValid[i]}) <= 1}

createbranchWide == createbranchOf(RpcBranchArgsWide)

createsealedvote ==
    \E a \in RpcSealedArgs, ub \in ModZero :
        Validated("createsealedvote", a, NewSealedVote(a[1], a[2], a[3]),
                  createvote_check(store, a[1], a[2], ub))

createstealvote ==
    \E a \in RpcStealArgs, ub \in ModZero :
        Validated("createstealvote", a, NewStealVote(a[1], a[2], a[3]),
                  createvote_check(store, a[1], a[2], ub))

createrevealvote ==
    \E a \in RpcRevealArgs, ub \in ModZero :
        Validated("createrevealvote", a,
                  createrevealvote_obj(a[1], a[2], a[3], a[4]),
                  createrevealvote_check(store, a[1], a[2], a[4], ub))

VoteRpcInit ==
    /\ \E n \in VoteSeedLengths : store = VoteSeedStore(n)
    /\ nOps = 0
    /\ wvect = << >> /\ wit = 0 /\ wbatch = << >> /\ wres = "none"
    /\ scan = NoScan
    /\ mempool = << >>
    /\ nTx = 0
    /\ rpc = [pc |-> "idle"]
    /\ ret = [call |-> "none"]
    /\ cobj = NoObj /\ cbytes = << >> /\ cdec = NoObj

VoteRpcNext ==
    \/ createbranchWide
    \/ createsealedvote
    \/ createstealvote
    \/ createrevealvote
    \/ SendTransaction

SpecVoteRpc == VoteRpcInit /\ [][VoteRpcNext]_vars

(* Every create* call, on a store of either kind.                          *)
CreateInit == RpcInit \/ VoteRpcInit

CreateNext ==
    \/ createbranch
    \/ createdecision
    \/ createmarket
    \/ createtrade
    \/ createsealedvote
    \/ createstealvote
    \/ createrevealvote
    \/ SendTransaction

SpecCreate == CreateInit /\ [][CreateNext]_vars

----------------------------------------------------------------------------
(* Properties of the store.                                                *)

IsPrimary(k) == Len(k) = 2 /\ k[1] \in MarketOps

IsSecondary(k) ==
    Len(k) >= 3 /\ k[1] \in {IDX_d, IDX_l, IDX_m, IDX_o, IDX_r, IDX_s, IDX_t}

RecordAt(st, k) == Unserialize(k[1], st[k]).obj

(* The secondary keys the key schema demands for a record.                 *)
SchemaKeys(op, objid, r) ==
    CASE op = OP_D -> {<<IDX_d, r.branchid, objid>>}
      [] op = OP_M -> {<<IDX_m, r.decisionIDs[i], objid>> :
                          i \in 1..Len(r.decisionIDs)}
      [] op = OP_T -> {<<IDX_t, r.marketid, objid>>}
      [] op = OP_O -> {<<IDX_o, r.branchid, objid>>}
      [] op = OP_S -> {<<IDX_s, r.branchid, r.height, objid>>}
      [] op = OP_R -> {<<IDX_r, r.branchid, r.height, objid>>}
      [] op = OP_L -> {<<IDX_l, r.branchid, r.height, objid>>}
      [] OTHER -> {}

(* C4: every primary key in the store comes with exactly the secondary     *)
(* keys its variant's schema demands, each holding the primary's value,    *)
(* and the store holds no other secondary key.                             *)
C4_IndexSchema ==
    /\ \A k \in DOMAIN store :
           IsPrimary(k) =>
               \A k2 \in SchemaKeys(k[1], k[2], RecordAt(store, k)) :
                   k2 \in DOMAIN store /\ store[k2] = store[k]
    /\ \A k2 \in DOMAIN store :
           IsSecondary(k2) =>
               \E k \in DOMAIN store :
                   /\ IsPrimary(k)
                   /\ k2 \in SchemaKeys(k[1], k[2], RecordAt(store, k))

C4_Witness ==
    /\ <<OP_M, GetHash(Market1)>> \in DOMAIN store
    /\ Cardinality({k \in DOMAIN store : k[1] = IDX_m}) = 2
    /\ \E k \in DOMAIN store : k[1] \in {IDX_s, IDX_r, IDX_l, IDX_o, IDX_t}

ScanOp(name) ==
    CASE name = "GetDecisions" -> OP_D
      [] name = "GetMarkets" -> OP_M
      [] name = "GetTrades" -> OP_T
      [] name = "GetOutcomes" -> OP_O

(* The record r of family op falls under the scan for id.                  *)
Under(op, r, id) ==
    CASE op = OP_D -> r.branchid = id
      [] op = OP_M -> \E i \in 1..Len(r.decisionIDs) : r.decisionIDs[i] = id
      [] op = OP_T -> r.marketid = id
      [] op = OP_O -> r.branchid = id

CommittedUnder(op, id) ==
    {k[2] : k \in {p \in DOMAIN store :
                      IsPrimary(p) /\ p[1] = op
                      /\ Under(op, RecordAt(store, p), id)}}

C8_Immutable ==
    [][\A k \in DOMAIN store :
           (Len(k) = 2 /\ k[1] \in {OP_B, OP_D, OP_M}) =>
               /\ k \in DOMAIN store'
               /\ GetPrimary(store', k[1], k[2]) = GetPrimary(store, k[1], k[2])]_vars

VoteOp(name) ==
    CASE name = "GetSealedVotes" -> OP_S
      [] name = "GetRevealVotes" -> OP_R
      [] name = "GetStealVotes" -> OP_L

VotesAt(op, id, height) ==
    {k \in DOMAIN store :
        /\ IsPrimary(k) /\ k[1] = op
        /\ RecordAt(store, k).branchid = id
        /\ RecordAt(store, k).height = height}

(* C6: a vote scan returns one entry per committed vote of its family with *)
(* the branch and height asked for, and each entry is a vote that was      *)
(* written.                                                                *)
C6_VoteScans ==
    scan.op \in {"GetSealedVotes", "GetRevealVotes", "GetStealVotes"} =>
        LET op == VoteOp(scan.op)
            res == scan.result
        IN /\ Len(res) = Cardinality(VotesAt(op, scan.id, scan.height))
           /\ \A i \in 1..Len(res) :
                  \E k \in VotesAt(op, scan.id, scan.height) :
                      Serialize(res[i]) = Serialize(RecordAt(store, k))

(* The primary key and the secondary keys the schema demands for a pair.   *)
AllKeys(pair) ==
    {<<pair[2].marketop, pair[1]>>}
    \cup SchemaKeys(pair[2].marketop, pair[1], pair[2])

(* The last pair of the list with the id of pair i.                        *)
LastOf(vect, i) ==
    CHOOSE j \in i..Len(vect) :
        /\ vect[j][1] = vect[i][1]
        /\ \A l \in (j + 1)..Len(vect) : vect[l][1] # vect[i][1]

(* C3: a step that changes the store writes every primary and secondary    *)
(* key of every record of the list, and no step writes less; a call that   *)
(* has not committed has changed nothing.                                  *)
C3_AtomicCommit ==
    [][/\ store' # store =>
            /\ wres' = "ok"
            /\ \A i \in 1..Len(wvect) :
                   \A k \in AllKeys(wvect[i]) :
                       /\ k \in DOMAIN store'
                       /\ store'[k] = ValueOf(wvect[LastOf(wvect, i)][2])
       /\ wres' # "ok" => store' = store]_vars

C3_Witness ==
    /\ wres = "ok"
    /\ Len(wvect) = 2
    /\ wvect[1][1] # wvect[2][1]
    /\ \A i \in 1..2 : AllKeys(wvect[i]) \subseteq DOMAIN store
    /\ Cardinality(DOMAIN store) >= 4

(* C1: a committing call whose list holds a record with a primary key the  *)
(* store already has is rejected and leaves the store as it was.           *)
C1_RejectsDuplicate ==
    [][(/\ wit = Len(wvect) + 1
        /\ wit' = 0
        /\ \E i \in 1..Len(wvect) :
               <<wvect[i][2].marketop, wvect[i][1]>> \in DOMAIN store)
       => (wres' # "ok" /\ store' = store)]_vars

----------------------------------------------------------------------------
(* The codec on its own: a record is serialized into a script payload and  *)
(* read back by the tag-dispatched constructor.                            *)

CodecInit ==
    /\ store = << >>
    /\ nOps = 0
    /\ wvect = << >> /\ wit = 0 /\ wbatch = << >> /\ wres = "none"
    /\ scan = NoScan
    /\ mempool = << >>
    /\ nTx = 0
    /\ rpc = [pc |-> "idle"]
    /\ ret = [call |-> "none"]
    /\ cobj \in CodecObjects
    /\ cbytes = << >>
    /\ cdec = NoObj

CodecSerialize ==
    /\ cbytes = << >>
    /\ cbytes' = Serialize(cobj)
    /\ UNCHANGED <<store, nOps, wvect, wit, wbatch, wres, scan, mempool, nTx,
                   rpc, ret, cobj, cdec>>

CodecUnserialize ==
    /\ cbytes # << >>
    /\ cdec = NoObj
    /\ Unserialize(cbytes[1], cbytes).ok
    /\ cdec' = Unserialize(cbytes[1], cbytes).obj
    /\ UNCHANGED <<store, nOps, wvect, wit, wbatch, wres, scan, mempool, nTx,
                   rpc, ret, cobj, cbytes>>

CodecNext == CodecSerialize \/ CodecUnserialize

SpecCodec == CodecInit /\ [][CodecNext]_vars

(* C7: decoding the encoded record gives back every carrier field of the   *)
(* variant, and the record hash is the same before and after.              *)
C7_RoundTrip ==
    cdec # NoObj =>
        /\ \A f \in CarrierFields(cobj.marketop) : cdec[f] = cobj[f]
        /\ GetHash(cdec) = GetHash(cobj)

----------------------------------------------------------------------------
(* Properties of the create* calls.                                        *)

(* The arguments pass the checks a call makes before it looks into the     *)
(* store.                                                                  *)
ArgsValid(call, a) ==
    CASE call = "createbranch" -> TRUE
      [] call = "createdecision" ->
             a[1] = "keyid" /\ ~(a[4] = 1 /\ a[5] # 8)
      [] call = "createmarket" ->
             /\ a[1] = "keyid"
             /\ \A i \in 1..Len(a[2]) :
                    Len(a[2][i]) = 1 \/ decisionFunctionToInt(a[2][i][2]) >= 0
      [] call = "createtrade" ->
             /\ a[1] = "keyid" /\ a[3] \in {"buy", "sell"}
             /\ a[4] > 0 /\ a[5] > 0
      [] call = "getcreatetradecapitalrequired" ->
             a[2] \in {"buy", "sell"} /\ a[3] > 0
      [] OTHER -> FALSE

(* The record a call with valid arguments asks for.                        *)
RecordOf(call, a) ==
    CASE call = "createbranch" -> createbranch_obj(a)
      [] call = "createdecision" -> createdecision_obj(a[2], a[3], a[4], a[5])
      [] call = "createmarket" ->
             NewMarket(NullId,
                       [i \in 1..Len(a[2]) |-> a[2][i][1]],
                       [i \in 1..Len(a[2]) |->
                           IF Len(a[2][i]) = 1 THEN DFID_X1
                           ELSE decisionFunctionToInt(a[2][i][2])])
      [] call = "createtrade" ->
             NewTrade(a[2], IF a[3] = "buy" THEN 1 ELSE 0, a[4], a[5], a[6], 0)

(* The record was submitted before: it waits in the mempool or a block has *)
(* committed it.                                                           *)
Submitted(obj) ==
    \/ \E i \in 1..Len(mempool) : mempool[i][1] = GetHash(obj)
    \/ <<obj.marketop, GetHash(obj)>> \in DOMAIN store

DuplicateErrors ==
    {"branchid already exists!", "Decision already exists!",
     "Market already exists!", "tradeid already exists!"}

(* Failures of the wallet after the checks of a call.                      *)
WalletErrors == {"CreateTransaction", "The transaction was rejected!"}

(* C2: a create call for a record that was submitted before returns a      *)
(* Duplicate error unless the wallet fails, and a block that takes         *)
(* submissions from the mempool leaves one copy of each of them in the     *)
(* store.                                                                  *)
C2_DuplicateRejected ==
    [][/\ (/\ ret' # ret
           /\ ArgsValid(ret'.call, ret'.args)
           /\ Submitted(RecordOf(ret'.call, ret'.args))
           /\ ret'.err \notin WalletErrors)
          => ret'.err \in DuplicateErrors
       /\ store' # store =>
             \A i \in 1..(Len(mempool) - Len(mempool')) :
                 Cardinality({k \in DOMAIN store' :
                                 IsPrimary(k) /\ k[2] = mempool[i][1]}) = 1]_vars

(* C9: createdecision with a branchid that names no branch of the store    *)
(* and createtrade with a marketid that names no market of the store       *)
(* return an error and submit no transaction; when the other arguments are *)
(* valid, the error is the not-found error.                                *)
C9_ReferenceIntegrity ==
    [][ret' # ret =>
           /\ (/\ ret'.call = "createdecision"
               /\ ~GetPrimary(store, OP_B, ret'.args[2]).ok)
              => /\ ret'.err # "none"
                 /\ mempool' = mempool /\ nTx' = nTx
                 /\ ArgsValid(ret'.call, ret'.args)
                        => ret'.err = "Branch not found!"
           /\ (/\ ret'.call = "createtrade"
               /\ ~GetPrimary(store, OP_M, ret'.args[2]).ok)
              => /\ ret'.err # "none"
                 /\ mempool' = mempool /\ nTx' = nTx
                 /\ ArgsValid(ret'.call, ret'.args)
                        => ret'.err = "marketid does not exist!"]_vars

C9_Witness ==
    /\ ret.call = "createdecision"
    /\ ret.err = "Branch not found!"
    /\ ArgsValid(ret.call, ret.args)
    /\ ~GetPrimary(store, OP_B, ret.args[2]).ok
    /\ <<OP_B, GetHash(Branch1)>> \in DOMAIN store
    /\ mempool # << >>

(* C10: a market createmarket accepted lists decisions of the store, all   *)
(* of one branch, and its branchid is that branch.                         *)
C10_MarketDecisions ==
    (ret.call = "createmarket" /\ ret.err = "none") =>
        \A i \in 1..Len(ret.obj.decisionIDs) :
            LET d == GetPrimary(store, OP_D, ret.obj.decisionIDs[i])
            IN d.ok /\ d.obj.branchid = ret.obj.branchid

----------------------------------------------------------------------------
(* Properties of createbranch and of the vote calls.                       *)

VoteCalls == {"createsealedvote", "createstealvote", "createrevealvote"}

InvalidHeight == "Invalid height for the branch's tau!"

(* C11: a vote call on an existing branch that returns a txid has a height *)
(* that is a multiple of the branch's tau, and one whose height is not a   *)
(* multiple of tau returns the height error and submits nothing.           *)
C11_VoteHeight ==
    [][(/\ ret' # ret
        /\ ret'.call \in VoteCalls
        /\ GetPrimary(store, OP_B, ret'.args[1]).ok)
       => LET tau == GetPrimary(store, OP_B, ret'.args[1]).obj.tau
              height == ret'.args[2]
          IN /\ ret'.err = "none" => (tau # 0 /\ height % tau = 0)
             /\ ((tau = 0 /\ height # 0) \/ (tau # 0 /\ height % tau # 0))
                    => (ret'.err = InvalidHeight /\ mempool' = mempool)]_vars

(* A sealed vote of the store that the vote names, by its id or by its     *)
(* voteid.                                                                 *)
HasSealed(st, voteid) ==
    \E k \in DOMAIN st :
        /\ IsPrimary(k) /\ k[1] = OP_S
        /\ (k[2] = voteid \/ RecordAt(st, k).voteid = voteid)

(* C12: createrevealvote and createstealvote return a txid only for a vote *)
(* whose sealed vote is in the store, and every reveal and steal vote of   *)
(* the store has its sealed vote there.                                    *)
C12_VotePhases ==
    [][/\ (/\ ret' # ret
           /\ ret'.call \in {"createrevealvote", "createstealvote"}
           /\ ret'.err = "none")
          => HasSealed(store, ret'.obj.voteid)
       /\ \A k \in DOMAIN store' :
              (IsPrimary(k) /\ k[1] \in {OP_R, OP_L})
                  => HasSealed(store', GetPrimary(store', k[1], k[2]).obj.voteid)]_vars

(* C13: a branch createbranch returned a txid for has 0 < targetDecisions  *)
(* <= maxDecisions, tau > 0 and ballotTime + unsealTime < tau.             *)
C13_BranchSanity ==
    (ret.call = "createbranch" /\ ret.err = "none") =>
        /\ 0 < ret.obj.targetDecisions
        /\ ret.obj.targetDecisions <= ret.obj.maxDecisions
        /\ ret.obj.tau > 0
        /\ ret.obj.ballotTime + ret.obj.unsealTime < ret.obj.tau

----------------------------------------------------------------------------
(* Properties of the trade calls.                                          *)

TradeCalls == {"createtrade", "getcreatetradecapitalrequired"}

StateAbove == "decision state is above the number of states in the market!"

(* The market id and the decision state among the arguments of a trade     *)
(* call.                                                                   *)
TradeMarketId(r) == IF r.call = "createtrade" THEN r.args[2] ELSE r.args[1]
TradeState(r) == IF r.call = "createtrade" THEN r.args[6] ELSE r.args[4]

(* C14: createtrade and getcreatetradecapitalrequired never index the      *)
(* share vector out of its bounds; they succeed only with a decision state *)
(* below 2^|decisions| of the market, and with valid arguments and a       *)
(* decision state at or above it they return the error and submit nothing. *)
C14_DecisionState ==
    [][(ret' # ret /\ ret'.call \in TradeCalls)
       => LET m == GetPrimary(store, OP_M, TradeMarketId(ret'))
          IN /\ ret'.err # OutOfBounds
             /\ ret'.err = "none"
                    => (/\ m.ok
                        /\ TradeState(ret') < Pow(2, Len(m.obj.decisionIDs)))
             /\ (/\ m.ok
                 /\ ArgsValid(ret'.call, ret'.args)
                 /\ TradeState(ret') >= Pow(2, Len(m.obj.decisionIDs)))
                    => (ret'.err = StateAbove /\ mempool' = mempool)]_vars

C14_Witness ==
    /\ ret.call = "createtrade"
    /\ ret.err = StateAbove
    /\ ArgsValid(ret.call, ret.args)
    /\ GetPrimary(store, OP_M, ret.args[2]).ok
    /\ ret.args[6] >= Pow(2, Len(GetPrimary(store, OP_M, ret.args[2]).obj.decisionIDs))

PriceRejected == "price needs to be at least"

(* A createtrade call returns whose arguments pass every test before the   *)
(* price: they are valid, the market is in the store, the decision state   *)
(* is one of its states and the trade is new; and the wallet does not      *)
(* fail.                                                                   *)
ReachesPrice(buy_or_sell) ==
    /\ ret' # ret
    /\ ret'.err \notin WalletErrors
    /\ ret'.call = "createtrade"
    /\ ret'.args[3] = buy_or_sell
    /\ ArgsValid(ret'.call, ret'.args)
    /\ GetPrimary(store, OP_M, ret'.args[2]).ok
    /\ ret'.args[6] < marketNStates(GetPrimary(store, OP_M, ret'.args[2]).obj)
    /\ ~GetPrimary(store, OP_T, GetHash(RecordOf(ret'.call, ret'.args))).ok

(* C16: a buy whose declared price is below the computed price per share,  *)
(* both in units of 1e-8 coin, returns the price error and submits         *)
(* nothing; a buy whose declared price is at or above it does not return   *)
(* the price error.                                                        *)
C16_BuyPrice ==
    [][ReachesPrice("buy")
       => /\ ret'.args[5] < ret'.args[7]
                => (ret'.err = PriceRejected /\ mempool' = mempool)
          /\ ret'.args[5] >= ret'.args[7] => ret'.err # PriceRejected]_vars

(* C17: a sell whose declared price is above the computed price per share  *)
(* returns the price error and submits nothing.                            *)
C17_SellPrice ==
    [][(ReachesPrice("sell") /\ ret'.args[5] > ret'.args[7])
       => (ret'.err = PriceRejected /\ mempool' = mempool)]_vars

----------------------------------------------------------------------------
(* getballot on a store that holds branches with tau 0, 2 and 3 and        *)
(* decisions that end at different blocks.                                 *)

MaxBlock == 4   \* the highest block a decision ends by and a ballot is asked for

BranchTau3 == createbranch_obj(<<2, 1, 1, 3, 0, 1>>)
BallotBranches == <<Branch1, BranchTau2, BranchTau3>>

BallotDecision(branchid, eventOverBy) ==
    [NewDecision(branchid, 0) EXCEPT !.eventOverBy = eventOverBy]

BallotDecisions ==
    {BallotDecision(GetHash(BranchTau2), e) : e \in 1..MaxBlock}
    \cup {BallotDecision(GetHash(BranchTau3), 3), BallotDecision(GetHash(Branch1), 0)}
BallotPairs == {<<GetHash(d), WithTx(d, 1)>> : d \in BallotDecisions}

BallotStore ==
    WriteBatch(<< >>,
               BuildBatch([i \in 1..Len(BallotBranches) |->
                              <<GetHash(BallotBranches[i]),
                                WithTx(BallotBranches[i], i)>>], 1))

BallotBranchIds == {GetHash(BallotBranches[i]) : i \in 1..Len(BallotBranches)} \cup {NoSuchId}
BallotHeights == {U32(h) : h \in 0..MaxBlock} \cup {Max32}

(* What (block_num - 1) / branch.tau can do when tau is 0: the division is *)
(* undefined, it traps or gives a quotient of 0.                           *)
DivZero == {"trap", "zero"}

(* minblock and maxblock as getballot computes them.                       *)
getballot_window(tau, block_num) ==
    LET quotient == IF tau = 0 THEN U32(0)
                    ELSE Div32(Sub32(block_num, One32), tau)
        minblock == Add32(Mul32(tau, quotient), One32)
    IN [minblock |-> minblock,
        maxblock |-> Sub32(Add32(minblock, U32(tau)), One32)]

(* The loop over the decisions of the branch: those that end before        *)
(* minblock or after maxblock are skipped.                                 *)
getballot_decisionsNoMax(vec, minblock, maxblock) ==
    SelectSeq(vec, LAMBDA obj : ~Less32(U32(obj.eventOverBy), minblock))
getballot_decisions(vec, minblock, maxblock) ==
    SelectSeq(vec, LAMBDA obj :
        ~(Less32(U32(obj.eventOverBy), minblock) \/ Less32(maxblock, U32(obj.eventOverBy))))

(* getballot, parameters to return; the height is the second parameter or  *)
(* the height of the active chain.                                         *)
getballot ==
    \E branchid \in BallotBranchIds, block_num \in BallotHeights, ub \in DivZero :
        LET b == GetPrimary(store, OP_B, branchid)
            w == getballot_window(b.obj.tau, block_num)
        IN IF ~b.ok
           THEN Returned("getballot", branchid, block_num, FALSE, [err |-> "Branch not found!"])
           ELSE IF b.obj.tau = 0 /\ ub = "trap"
           THEN Returned("getballot", branchid, block_num, FALSE, [err |-> "SIGFPE"])
           ELSE Returned("getballot", branchid, block_num, TRUE,
                   [err |-> "none", minblock |-> w.minblock, maxblock |-> w.maxblock,
                    decisions |-> getballot_decisions(GetDecisions(store, branchid),
                                                      w.minblock, w.maxblock)])

BallotInit ==
    /\ store = BallotStore
    /\ nOps = 0
    /\ wvect = << >> /\ wit = 0 /\ wbatch = << >> /\ wres = "none"
    /\ scan = NoScan
    /\ mempool = << >>
    /\ nTx = 0
    /\ rpc = [pc |-> "idle"]
    /\ ret = [call |-> "none"]
    /\ cobj = NoObj /\ cbytes = << >> /\ cdec = NoObj

BallotNext ==
    \/ WriteMarketIndexOf(BallotPairs)
    \/ getballot
    \/ Discard

SpecBallot == BallotInit /\ [][BallotNext]_vars

----------------------------------------------------------------------------
(* The price per share of createtrade and getcreatetradecapitalrequired,   *)
(* from the account value before and after the trade.  Shares are counted  *)
(* in units of 1e-8 share and doubles are taken as exact numbers.          *)

MaxShares == 2      \* shares of one state of a market, and of one trade

(* marketAccountValue for a market whose cost is given by the coefficients *)
(* c, on the shares of a market with two states.                           *)
marketAccountValue(c, nShares) ==
    c[1] * nShares[1] * nShares[1] + c[2] * nShares[2] * nShares[2] + c[3] * nShares[1] * nShares[2]

(* nShares[decisionState] += (isBuy)? 1e-8*n : -1e-8*n, states counted     *)
(* from 0.                                                                 *)
AddShares(nShares, decisionState, isBuy, n) ==
    [nShares EXCEPT ![decisionState + 1] = @ + (IF isBuy THEN n ELSE -n)]

(* A price (next - curr) / (1e-8 * n) + plus * 1e-8, kept as its parts.    *)
PricePerShare(diff, n, plus) == [diff |-> diff, nShares |-> n, plus |-> plus]

(* The price of both calls with the sign of the buy for a sell too.        *)
trade_price_BuySign(c, nShares, decisionState, isBuy, n, plus) ==
    LET currAccount == marketAccountValue(c, nShares)
        nextAccount == marketAccountValue(c, AddShares(nShares, decisionState, isBuy, n))
    IN PricePerShare(nextAccount - currAccount, n, plus)

(* The price of both calls: getcreatetradecapitalrequired adds 1e-8 to it, *)
(* createtrade nothing.                                                    *)
trade_price(c, nShares, decisionState, isBuy, n, plus) ==
    LET currAccount == marketAccountValue(c, nShares)
        nextAccount == marketAccountValue(c, AddShares(nShares, decisionState, isBuy, n))
    IN PricePerShare(IF isBuy THEN nextAccount - currAccount ELSE currAccount - nextAccount,
                     n, plus)

AccountCoefficients == (0..2) \X (0..2) \X (0..2)
ShareVectors == (0..MaxShares) \X (0..MaxShares)
QuoteCalls == {"createtrade", "getcreatetradecapitalrequired"}

(* A buy is quoted by one of the two calls.                                *)
QuoteBuy ==
    /\ ret.call = "none"
    /\ \E call \in QuoteCalls, c \in AccountCoefficients, q \in ShareVectors, i \in 0..1, n \in 1..MaxShares :
        ret' = [call |-> call, c |-> c, nShares |-> q, decisionState |-> i, n |-> n, sold |-> FALSE,
                buy |-> trade_price(c, q, i, TRUE, n, IF call = "createtrade" THEN 0 ELSE 1),
                sell |-> PricePerShare(0, 0, 0)]
    /\ UNCHANGED <<store, nOps, wvect, wit, wbatch, wres, scan, mempool, nTx, rpc,
                   cobj, cbytes, cdec>>

(* The sell of the same shares is quoted by the same call from the shares  *)
(* of the market after the buy.                                            *)
QuoteSell ==
    /\ ret.call \in QuoteCalls
    /\ ~ret.sold
    /\ ret' = [ret EXCEPT !.sold = TRUE,
                          !.sell = trade_price(ret.c, AddShares(ret.nShares, ret.decisionState, TRUE, ret.n),
                                               ret.decisionState, FALSE, ret.n, ret.buy.plus)]
    /\ UNCHANGED <<store, nOps, wvect, wit, wbatch, wres, scan, mempool, nTx, rpc,
                   cobj, cbytes, cdec>>

QuoteNext ==
    \/ QuoteBuy
    \/ QuoteSell

SpecQuote == Init /\ [][QuoteNext]_vars

----------------------------------------------------------------------------
(* A scan key by key: the cursor is placed, the loop visits one key per    *)
(* turn, and the thread can be interrupted at the head of each turn.       *)

ScanIndex(name) ==
    CASE name = "GetDecisions" -> <<IDX_d, OP_D>>
      [] name = "GetMarkets" -> <<IDX_m, OP_M>>
      [] name = "GetOutcomes" -> <<IDX_o, OP_O>>
      [] name = "GetTrades" -> <<IDX_t, OP_T>>

ScanFrame == <<store, nOps, wvect, wit, wbatch, wres, mempool, nTx, rpc, ret, cobj, cbytes, cdec>>

(* NewIterator and Seek.                                                   *)
ScanSeek ==
    /\ scan = NoScan
    /\ \E name \in {"GetDecisions", "GetMarkets", "GetOutcomes", "GetTrades"}, id \in ScanIds :
        scan' = [op |-> name, id |-> id, height |-> 0, ok |-> FALSE, result |-> << >>,
                 keys |-> SeekAll(store, ScanIndex(name)[1], id)]
    /\ UNCHANGED ScanFrame

(* One turn of the loop: the key is tested, the record read and pushed,    *)
(* the cursor advanced.                                                    *)
ScanTurn ==
    /\ scan # NoScan /\ ~scan.ok /\ scan.keys # << >>
    /\ scan' = [scan EXCEPT
                   !.result = @ \o ScanById(store, <<Head(scan.keys)>>, ScanIndex(scan.op)[1],
                                            scan.id, ScanIndex(scan.op)[2]),
                   !.keys = Tail(@)]
    /\ UNCHANGED ScanFrame

(* An interruption that also writes back the key the cursor is at.         *)
ScanInterrupted_Erases ==
    /\ scan # NoScan /\ ~scan.ok /\ scan.keys # << >>
    /\ scan' = NoScan
    /\ store' = Erase(store, Head(scan.keys))
    /\ UNCHANGED <<nOps, wvect, wit, wbatch, wres, mempool, nTx, rpc, ret, cobj, cbytes, cdec>>

(* boost::this_thread::interruption_point throws: the call is left, its    *)
(* vector and cursor are destroyed.                                        *)
ScanInterrupted ==
    /\ scan # NoScan /\ ~scan.ok /\ scan.keys # << >>
    /\ scan' = NoScan
    /\ UNCHANGED ScanFrame

(* The cursor is past the last key: the vector is returned.                *)
ScanReturn ==
    /\ scan # NoScan /\ ~scan.ok /\ scan.keys = << >>
    /\ scan' = [scan EXCEPT !.ok = TRUE]
    /\ UNCHANGED ScanFrame

(* The caller is done with the vector.                                     *)
ScanDone ==
    /\ scan # NoScan /\ scan.ok
    /\ scan' = NoScan
    /\ UNCHANGED ScanFrame

ScanInit ==
    /\ \E n \in SeedLengths : store = SeedStore(n)
    /\ nOps = 0
    /\ wvect = << >> /\ wit = 0 /\ wbatch = << >> /\ wres = "none"
    /\ scan = NoScan
    /\ mempool = << >>
    /\ nTx = 0
    /\ rpc = [pc |-> "idle"]
    /\ ret = [call |-> "none"]
    /\ cobj = NoObj /\ cbytes = << >> /\ cdec = NoObj

ScanNext ==
    \/ WriteMarketIndexOf(BatchPairs)
    \/ ScanSeek
    \/ ScanTurn
    \/ ScanInterrupted
    \/ ScanReturn
    \/ ScanDone

SpecScan == ScanInit /\ [][ScanNext]_vars

----------------------------------------------------------------------------
(* marketOutcome::calc, the stage that derives decisionsRaw and            *)
(* decisionsFinal from smoothedRep and the vote matrix.  Values are fixed  *)
(* point: COIN stands for 1.                                               *)

FixedSplit == 10000

(* a * b / COIN on fixed-point values below 2 * COIN, rounded down; the    *)
(* product is taken in parts that fit a machine word of the checker.       *)
MulFixed(a, b) ==
    LET ah == a \div FixedSplit
        al == a % FixedSplit
        bh == b \div FixedSplit
        bl == b % FixedSplit
    IN ah * bh + (ah * bl + al * bh + (al * bl) \div FixedSplit) \div FixedSplit

(* decisions_raw[d]: the sum over the voters of smoothedRep[v] * M[v, d].  *)
RECURSIVE calc_raw(_, _, _)
calc_raw(outcome, d, v) ==
    IF v = 0 THEN 0
    ELSE calc_raw(outcome, d, v - 1)
         + MulFixed(outcome.smoothedRep[v], outcome.voteMatrix[(v - 1) * outcome.nDecisions + d])

Half == COIN \div 2

AbsDiff(a, b) == IF a >= b THEN a - b ELSE b - a

(* decisions_final of a raw value with no NA mark for a value near 0.5.    *)
calc_final_NoNA(outcome, d, raw) ==
    IF outcome.isScaled[d] # 0 THEN raw
    ELSE IF raw >= Half THEN COIN ELSE 0

(* decisions_final of a raw value: a binary decision within tol of 0.5 is  *)
(* marked NA, else it is 1 from 0.5 on and 0 below; a scaled decision      *)
(* keeps its raw value.                                                    *)
calc_final(outcome, d, raw) ==
    IF outcome.isScaled[d] # 0 THEN raw
    ELSE IF AbsDiff(raw, Half) < outcome.tol THEN outcome.NA
    ELSE IF raw >= Half THEN COIN ELSE 0

calc(outcome) ==
    LET raw == [d \in 1..outcome.nDecisions |-> calc_raw(outcome, d, outcome.nVoters)]
    IN [outcome EXCEPT !.decisionsRaw = raw,
                       !.decisionsFinal = [d \in 1..outcome.nDecisions |-> calc_final(outcome, d, raw[d])]]

MaxVoters == 3      \* voters of an outcome

CalcReps ==
    {<<COIN>>, <<Half, Half>>, <<60000000, 40000000>>, <<Half, 25000000, 25000000>>,
     <<33333334, 33333333, 33333333>>, <<49000000, 26000000, 25000000>>}
CalcVotes == {0, Half, COIN}
CalcTols == {0, 2000000, 20000000}

CalcInputs ==
    {[marketObj(OP_O) EXCEPT !.nVoters = Len(rep), !.nDecisions = 1, !.smoothedRep = rep,
                             !.voteMatrix = m, !.isScaled = <<sc>>, !.tol = tol, !.NA = 2 * COIN] :
        rep \in {r \in CalcReps : Len(r) <= MaxVoters},
        m \in UNION {[1..n -> CalcVotes] : n \in 1..MaxVoters},
        sc \in {0, 1}, tol \in CalcTols}

CalcInit ==
    /\ store = << >>
    /\ nOps = 0
    /\ wvect = << >> /\ wit = 0 /\ wbatch = << >> /\ wres = "none"
    /\ scan = NoScan
    /\ mempool = << >>
    /\ nTx = 0
    /\ rpc = [pc |-> "idle"]
    /\ ret = [call |-> "none"]
    /\ cobj \in {o \in CalcInputs : Len(o.voteMatrix) = o.nVoters}
    /\ cbytes = << >> /\ cdec = NoObj

(* calc on the outcome at hand.                                            *)
CalcStep ==
    /\ cdec = NoObj
    /\ cdec' = calc(cobj)
    /\ UNCHANGED <<store, nOps, wvect, wit, wbatch, wres, scan, mempool, nTx, rpc, ret,
                   cobj, cbytes>>

SpecCalc == CalcInit /\ [][CalcStep]_vars

----------------------------------------------------------------------------
(* Outcomes written to the store and scanned by branch.                    *)

OutcomeOf(branchid, nHeight, nVoters) ==
    [marketObj(OP_O) EXCEPT !.branchid = branchid, !.nHeight = nHeight, !.nVoters = nVoters]

OutcomeBranches == {BranchTau2, BranchTau3}
OutcomeHeights == {4, 6}
OutcomeObjects ==
    {OutcomeOf(GetHash(b), h, n) : b \in OutcomeBranches, h \in OutcomeHeights, n \in {0, 1}}
OutcomePairs == {<<GetHash(o), WithTx(o, 1)>> : o \in OutcomeObjects}

GetOutcomesOf(ids) ==
    \E id \in ids : Returned("GetOutcomes", id, 0, TRUE, GetOutcomes(store, id))

OutcomeNext ==
    \/ WriteMarketIndexOf(OutcomePairs)
    \/ GetOutcomesOf({GetHash(b) : b \in OutcomeBranches})
    \/ Discard

SpecOutcome == BallotInit /\ [][OutcomeNext]_vars

----------------------------------------------------------------------------
(* getoutcome: the stored outcome as the object the call returns.          *)

(* ValueFromAmount: the sign, the whole coins and the 1e-8 units of an     *)
(* amount.                                                                 *)
ValueFromAmount(amount) ==
    LET n_abs == IF amount < 0 THEN -amount ELSE amount
    IN <<amount < 0, n_abs \div COIN, n_abs % COIN>>

(* The array a loop of getoutcome fills from a vector of amounts: element  *)
(* i under the key i.                                                      *)
AmountArray(vec) == [i \in 1..Len(vec) |-> ValueFromAmount(vec[i])]

(* The voter vectors and the decision vectors of the object, each under    *)
(* the name pushKV gives it.                                               *)
getoutcome_obj(outcome) ==
    [nVoters |-> outcome.nVoters,
     nDecisions |-> outcome.nDecisions,
     NA |-> ValueFromAmount(outcome.NA),
     tol |-> ValueFromAmount(outcome.tol),
     alpha |-> ValueFromAmount(outcome.alpha),
     voteMatrix |-> AmountArray(outcome.voteMatrix),
     voterIDs |-> outcome.voterIDs,
     oldRep |-> AmountArray(outcome.oldRep),
     thisRep |-> AmountArray(outcome.oldRep),
     smoothedRep |-> AmountArray(outcome.oldRep),
     NARow |-> AmountArray(outcome.oldRep),
     particRow |-> AmountArray(outcome.oldRep),
     particRel |-> AmountArray(outcome.oldRep),
     rowBonus |-> AmountArray(outcome.oldRep),
     decisionIDs |-> outcome.decisionIDs,
     isScaled |-> AmountArray(outcome.isScaled),
     firstLoading |-> AmountArray(outcome.firstLoading),
     decisionsRaw |-> AmountArray(outcome.decisionsRaw),
     consensusReward |-> AmountArray(outcome.consensusReward),
     certainty |-> AmountArray(outcome.certainty),
     NACol |-> AmountArray(outcome.NACol),
     particCol |-> AmountArray(outcome.particCol),
     authorBonus |-> AmountArray(outcome.authorBonus),
     decisionsFinal |-> AmountArray(outcome.decisionsFinal)]

(* Outcomes of one voter and one decision: the reputation the voter came   *)
(* with, the reputation of this period and the smoothed one, and the raw   *)
(* and final value of the decision.                                        *)
ReportOutcome(old, this, final) ==
    [marketObj(OP_O) EXCEPT !.branchid = GetHash(Branch1), !.nHeight = 1,
                            !.nVoters = 1, !.nDecisions = 1,
                            !.oldRep = <<old>>, !.thisRep = <<this>>,
                            !.smoothedRep = <<(old + this) \div 2>>,
                            !.decisionsRaw = <<final>>,
                            !.decisionsFinal = <<final>>]
ReportAmounts == {0, COIN \div 2, COIN}
ReportOutcomes ==
    {ReportOutcome(old, this, final) :
        old \in {COIN}, this \in ReportAmounts, final \in {0, COIN}}
ReportPairs == {<<GetHash(o), WithTx(o, 1)>> : o \in ReportOutcomes}
ReportIds == {GetHash(o) : o \in ReportOutcomes} \cup {NoSuchId}

getoutcome ==
    /\ \E outcomeid \in ReportIds :
        LET r == GetPrimary(store, OP_O, outcomeid)
        IN ret' = IF r.ok
                  THEN [call |-> "getoutcome", args |-> <<outcomeid>>,
                        err |-> "none", outcome |-> r.obj,
                        obj |-> getoutcome_obj(r.obj)]
                  ELSE [call |-> "getoutcome", args |-> <<outcomeid>>,
                        err |-> "Outcome not found!", outcome |-> r.obj,
                        obj |-> NoObj]
    /\ UNCHANGED <<store, nOps, wvect, wit, wbatch, wres, scan, mempool, nTx,
                   rpc, cobj, cbytes, cdec>>

ReportNext ==
    \/ WriteMarketIndexOf(ReportPairs)
    \/ getoutcome

SpecReport == Init /\ [][ReportNext]_vars

----------------------------------------------------------------------------
(* Properties of the number of states of a market.                         *)

(* 2^k without a width, as <<the part above 32 bits, high half, low        *)
(* half>>.                                                                 *)
RECURSIVE PowerOfTwo(_)
PowerOfTwo(k) ==
    IF k = 0 THEN <<0, 0, 1>>
    ELSE LET p == PowerOfTwo(k - 1)
         IN <<2 * p[1] + (2 * p[2]) \div UINT16,
              (2 * p[2] + (2 * p[3]) \div UINT16) % UINT16,
              (2 * p[3]) % UINT16>>

(* C15: for a market with k decisions that createmarket returned a txid    *)
(* for, the nStates the call computed is 2^k.                              *)
C15_NStates ==
    (ret.call = "createmarket" /\ ret.err = "none") =>
        <<0>> \o createmarket_check(store, ret.args[1], ret.args[2]).nStates
            = PowerOfTwo(Len(ret.obj.decisionIDs))

----------------------------------------------------------------------------
(* Properties of getballot.                                                *)

BallotTau(st, branchid) == GetPrimary(st, OP_B, branchid).obj.tau

InWindow(h, w) == ~Less32(h, w.minblock) /\ ~Less32(w.maxblock, h)

(* C18: for a branch with tau > 0 and a height h, the window getballot     *)
(* returns has minblock <= h <= maxblock, maxblock = minblock + tau - 1 a  *)
(* multiple of tau, and every height of the window gets the same window.   *)
C18_BallotWindow ==
    (scan.op = "getballot" /\ scan.ok /\ BallotTau(store, scan.id) > 0) =>
        LET tau == BallotTau(store, scan.id)
            w == [minblock |-> scan.result.minblock, maxblock |-> scan.result.maxblock]
        IN /\ InWindow(scan.height, w)
           /\ w.maxblock = Sub32(Add32(w.minblock, U32(tau)), One32)
           /\ Mod32(w.maxblock, tau) = U32(0)
           /\ \A h \in BallotHeights :
                 InWindow(h, w) => getballot_window(tau, h) = w

(* The committed decisions of the branch that end in the window.           *)
CommittedInWindow(st, branchid, minblock, maxblock) ==
    {GetPrimary(st, OP_D, k[2]).obj : k \in {p \in DOMAIN st :
        /\ IsPrimary(p) /\ p[1] = OP_D
        /\ RecordAt(st, p).branchid = branchid
        /\ ~Less32(U32(RecordAt(st, p).eventOverBy), minblock)
        /\ ~Less32(maxblock, U32(RecordAt(st, p).eventOverBy))}}

(* C19: the ballot getballot returns holds the committed decisions of the  *)
(* branch whose eventOverBy is in [minblock, maxblock], all of them, only  *)
(* them, each once.                                                        *)
C19_BallotDecisions ==
    (scan.op = "getballot" /\ scan.ok) =>
        LET res == scan.result.decisions
            in == CommittedInWindow(store, scan.id, scan.result.minblock, scan.result.maxblock)
        IN /\ {res[i] : i \in 1..Len(res)} = in
           /\ Len(res) = Cardinality(in)

C19_Witness ==
    /\ scan.op = "getballot" /\ scan.ok
    /\ scan.id = GetHash(BranchTau2)
    /\ Len(scan.result.decisions) = 2
    /\ <<OP_D, GetHash(BallotDecision(GetHash(BranchTau2), 2))>> \in DOMAIN store
    /\ <<OP_D, GetHash(BallotDecision(GetHash(BranchTau3), 3))>> \in DOMAIN store

----------------------------------------------------------------------------
(* Properties of the order of a scan's result.                             *)

ScanCalls ==
    {"GetBranches", "GetDecisions", "GetMarkets", "GetOutcomes", "GetTrades",
     "GetSealedVotes", "GetRevealVotes", "GetStealVotes"}

(* C20: the records a scan returns are in strictly increasing order of     *)
(* their ids, the last component of the keys scanned, and no id is         *)
(* returned twice.                                                         *)
C20_ScanOrder ==
    scan.op \in ScanCalls =>
        \A i, j \in 1..Len(scan.result) :
            i < j => IdCmp(GetHash(scan.result[i]), GetHash(scan.result[j])) < 0

----------------------------------------------------------------------------
(* Properties of the order of the trades of a market.                      *)

TradeIds(st, id) ==
    [i \in 1..Len(GetTrades(st, id)) |-> GetHash(GetTrades(st, id)[i])]

IsPrefix(a, b) == Len(a) <= Len(b) /\ SubSeq(b, 1, Len(a)) = a

(* C21 as stated: GetTrades returns the trades of a market in the order    *)
(* they were committed in, so a commit only appends to what it returned    *)
(* before.                                                                 *)
C21_InsertionOrder ==
    [][\A id \in ScanIds : IsPrefix(TradeIds(store, id), TradeIds(store', id))]_vars

(* C21 amended: GetTrades returns the trades of a market in increasing     *)
(* order of trade id whatever the order they were committed in: after a    *)
(* commit the trades returned before are still returned, and the whole     *)
(* result is in the order of the ids.                                      *)
C21_TradeIdOrder ==
    [][\A id \in ScanIds :
         LET old == TradeIds(store, id)
             new == TradeIds(store', id)
         IN /\ \A i \in 1..Len(old) : \E j \in 1..Len(new) : new[j] = old[i]
            /\ \A i, j \in 1..Len(new) : i < j => IdCmp(new[i], new[j]) < 0]_vars

C21_Witness ==
    /\ nOps = 2
    /\ scan.op = "GetTrades"
    /\ Len(scan.result) = 2

----------------------------------------------------------------------------
(* Properties of the outcomes of a branch.                                 *)

(* The tau period n an outcome of the branch closes: the outcome is        *)
(* decided for block n*tau + ballotTime + unsealTime + 1.                  *)
OutcomePeriod(branch, nHeight) ==
    (nHeight - branch.ballotTime - branch.unsealTime - 1) \div branch.tau

(* C22: GetOutcomes of a branch holds at most one outcome for any one tau  *)
(* period of the branch.                                                   *)
C22_OutcomeOnce ==
    scan.op = "GetOutcomes" =>
        LET branch == GetPrimary(store, OP_B, scan.id).obj
        IN \A i, j \in 1..Len(scan.result) :
               i < j => OutcomePeriod(branch, scan.result[i].nHeight)
                            # OutcomePeriod(branch, scan.result[j].nHeight)

----------------------------------------------------------------------------
(* Properties of the price per share.                                      *)

----------------------------------------------------------------------------
(* Properties of the function codes of a market.                           *)

(* The token names a code that is none of the four.                        *)
BadCode(token) == Len(token) = 2 /\ token[2] \notin FunctionCodes

(* C24: a market createmarket accepts has, for each token, the id of the   *)
(* code the token names, X1 when it names none; a list with a token whose  *)
(* code is none of X1, X2, X3, LNX1 is rejected with an error and nothing  *)
(* is submitted; and the name of the id of each code is the code.          *)
C24_FunctionCodes ==
    /\ \A code \in FunctionCodes :
           decisionFunctionIDToString(decisionFunctionToInt(code)) = code
    /\ ret.call = "createmarket" =>
           LET strs == ret.args[2]
           IN /\ (\E i \in 1..Len(strs) : BadCode(strs[i])) =>
                     ret.err \notin {"none"} \cup WalletErrors
              /\ ret.err = "none" =>
                     \A i \in 1..Len(strs) :
                         /\ ret.obj.decisionFunctionIDs[i] \in {DFID_X1, DFID_X2, DFID_X3, DFID_LNX1}
                         /\ Len(strs[i]) = 1 => ret.obj.decisionFunctionIDs[i] = DFID_X1
                         /\ Len(strs[i]) = 2 =>
                                decisionFunctionIDToString(ret.obj.decisionFunctionIDs[i]) = strs[i][2]

C24_Witness ==
    /\ ret.call = "createmarket" /\ ret.err = "none"
    /\ Len(ret.args[2]) = 2 /\ Len(ret.args[2][1]) = 1
    /\ ret.obj.decisionFunctionIDs = <<DFID_X1, DFID_LNX1>>

----------------------------------------------------------------------------
(* Properties of the steps of a scan.                                      *)

(* C25: no step of a scan changes the store, whether the scan goes on,     *)
(* returns or is interrupted.                                              *)
C25_ScanFrame == [][scan' # scan => store' = store]_vars

C25_Witness ==
    /\ scan # NoScan /\ scan.op = "GetDecisions" /\ ~scan.ok
    /\ Len(scan.result) = 1
    /\ scan.keys # << >>

----------------------------------------------------------------------------
(* Properties of the decisions of an outcome.                              *)

(* The sum of the values of f over the set S.                              *)
Sum(f, S) ==
    LET RECURSIVE sum(_)
        sum(T) == IF T = {} THEN 0
                  ELSE LET x == CHOOSE y \in T : TRUE IN f[x] + sum(T \ {x})
    IN sum(S)

----------------------------------------------------------------------------
(* Properties of the locking of the create* calls.                         *)

(* C27: the store a create* call validated its request against is the      *)
(* store at its CommitTransaction: while a call is between its validation  *)
(* and its commit no batch changes the store.                              *)
C27_ValidationLocked ==
    [][(rpc.pc = "lock" /\ rpc'.pc = "lock") => store' = store]_vars

(* C28: a create* call that returns the error of one of its checks has    *)
(* not reached LOCK2, has called neither CreateTransaction nor             *)
(* CommitTransaction, and no step of a create* call writes the store.      *)
C28_ValidationFirst ==
    [][/\ (ret' # ret /\ ret'.err \notin ({"none"} \cup WalletErrors))
           => /\ rpc.pc = "idle"
              /\ nTx' = nTx
              /\ mempool' = mempool
       /\ (ret' # ret \/ rpc' # rpc) => store' = store]_vars

C28_Witness ==
    /\ ret.call = "createsealedvote"
    /\ ret.err = "Invalid height for the branch's tau!"
    /\ nTx = 1
    /\ Len(mempool) = 1

----------------------------------------------------------------------------
(* Properties of the object getoutcome returns.                            *)

VoterVectors ==
    {"oldRep", "thisRep", "smoothedRep", "NARow", "particRow", "particRel",
     "rowBonus"}
DecisionVectors ==
    {"isScaled", "firstLoading", "decisionsRaw", "consensusReward",
     "certainty", "NACol", "particCol", "authorBonus", "decisionsFinal"}

(* C29: the array getoutcome returns under the name of a voter vector or   *)
(* of a decision vector has the elements of that field of the stored       *)
(* outcome, in order.                                                      *)
C29_OutcomeVectors ==
    (ret.call = "getoutcome" /\ ret.err = "none") =>
        \A name \in VoterVectors \cup DecisionVectors :
            ret.obj[name] = AmountArray(ret.outcome[name])

----------------------------------------------------------------------------
(* Properties of the getters.                                              *)

(* The pairs of the list of a committing call that carry a record of the   *)
(* family op under objid.                                                  *)
CommittedNow(op, objid) ==
    {i \in 1..Len(wvect) : wvect[i][1] = objid /\ wvect[i][2].marketop = op}

(* C30: a getter succeeds if and only if a record of its family was        *)
(* committed under the id, and returns that record: the step that commits  *)
(* a list makes the getter of each of its records return the record, and   *)
(* no other step (a record of another family, a secondary key, the 'R'     *)
(* and 'l' keys) changes what a getter returns; on the empty store every   *)
(* getter fails.                                                           *)
C30_ExactLookup ==
    [][\A op \in MarketOps, objid \in LookupIds :
          IF wit # 0 /\ wit' = 0 /\ wres' = "ok"
                /\ CommittedNow(op, objid) # {}
          THEN LET i == CHOOSE j \in CommittedNow(op, objid) :
                            \A l \in CommittedNow(op, objid) : l <= j
               IN /\ GetPrimary(store', op, objid).ok
                  /\ GetPrimary(store', op, objid).obj = wvect[i][2]
          ELSE GetPrimary(store', op, objid) = GetPrimary(store, op, objid)]_vars

====
